---- MODULE Spec2Model ----
(***************************************************************************)
(* FlixPatrol India API: the cache-aside orchestrator (get_cached_or_scrape *)
(* and the two endpoints of app/api/endpoints.py), the scraper pipeline of  *)
(* app/services/scraper.py and the TMDB matcher of                          *)
(* app/services/tmdb_matcher.py, as state machines over a Redis store.      *)
(***************************************************************************)
EXTENDS Integers, Sequences, FiniteSets, TLC

VARIABLES
    cache,      \* the Redis store: key -> stored text (or nothing)
    redis_ok,   \* TRUE while Redis answers; FALSE while its calls raise
    req,        \* the in-flight single-pair calls, one record per slot
    upstream,   \* what flixpatrol.com answers for a platform page
    scr,        \* one call of FlixPatrolScraper.get_top_10_for_category
    agg,        \* the calls of fetch_all: the run in flight and its tasks
    tmdb,       \* what the TMDB search answers, per media type
    matcher     \* a TMDBMatcher: its fields and one call of match_title

vars == <<cache, redis_ok, req, upstream, scr, agg, tmdb, matcher>>

----------------------------------------------------------------------------
(* Bounds of the model *)

\* number of request slots (calls that may be in flight together)
MaxSlots == 2
\* length of the longest item list kept under a per-pair key
MaxItems == 2
\* number of rows of the longest upstream table
MaxRows == 2
\* number of calls of fetch_all in one behaviour
MaxRuns == 2
\* the results in one answer of the TMDB search are at most
MaxResults == 2
\* the years between a result's release and the current year are at most
MaxGap == 36

----------------------------------------------------------------------------
(* Static tables of app/api/endpoints.py *)

PLATFORM_CONFIG ==
    [ p \in {"netflix", "amazon-prime", "apple-tv", "itunes", "google", "zee5"} |->
        CASE p = "netflix"      -> <<"TOP 10 Movies", "TOP 10 TV Shows">>
          [] p = "amazon-prime" -> <<"TOP 10 Movies", "TOP 10 TV Shows", "TOP 10 Overall">>
          [] p = "apple-tv"     -> <<"TOP 10 Movies", "TOP 10 TV Shows">>
          [] p = "itunes"       -> <<"TOP 10 Movies">>
          [] p = "google"       -> <<"TOP 10 Movies">>
          [] p = "zee5"         -> <<"TOP 10 Overall">> ]

\* dict order of PLATFORM_CONFIG (insertion order)
PLATFORM_ORDER ==
    <<"netflix", "amazon-prime", "apple-tv", "itunes", "google", "zee5">>

CATEGORY_MAP ==
    [ c \in {"movies", "tv-shows", "overall"} |->
        CASE c = "movies"   -> "TOP 10 Movies"
          [] c = "tv-shows" -> "TOP 10 TV Shows"
          [] c = "overall"  -> "TOP 10 Overall" ]

\* dict order of CATEGORY_MAP
CATEGORY_ORDER == <<"movies", "tv-shows", "overall">>

PLATFORM_SLUG_TO_MODEL_KEY ==
    [ p \in DOMAIN PLATFORM_CONFIG |->
        CASE p = "amazon-prime" -> "amazon_prime"
          [] p = "apple-tv"     -> "apple_tv"
          [] OTHER              -> p ]

Range(s) == { s[i] : i \in DOMAIN s }

----------------------------------------------------------------------------
(* Values *)

\* Optional[...]: None is the empty tuple, a value v is <<v>>
Nil == << >>
Some(v) == <<v>>

\* TopTenItem (app/models/streaming.py): the three required fields and the
\* five optional catalog fields, None by default
TopTenItem(rank, title, days) ==
    [ rank |-> rank, title |-> title, days_in_top_10 |-> days,
      tmdb_id |-> Nil, media_type |-> Nil, year |-> Nil,
      match_confidence |-> Nil, poster_path |-> Nil ]

ItemFields ==
    { "rank", "title", "days_in_top_10", "tmdb_id", "media_type", "year",
      "match_confidence", "poster_path" }
RequiredItemFields == { "rank", "title", "days_in_top_10" }

\* what a coroutine produces: a list, None, or a raised exception
RetList(items) == [ tag |-> "list", items |-> items, exc |-> "" ]
RetNone == [ tag |-> "None", items |-> << >>, exc |-> "" ]
Raised(e) == [ tag |-> "raise", items |-> << >>, exc |-> e ]

\* Python truthiness of a coroutine result: None and [] are falsy
TruthyResult(r) == r.tag = "list" /\ Len(r.items) > 0

----------------------------------------------------------------------------
(* app/core/config.py: the fields class Settings declares.  pydantic gives  *)
(* the instance exactly these attributes; reading any other attribute of it *)
(* raises AttributeError.                                                   *)

settings ==
    [ APP_NAME                 |-> "FlixPatrol India Scraper API",
      CONTACT_EMAIL            |-> "ops@example.org",
      REDIS_TYPE               |-> "local",
      REDIS_HOST               |-> "localhost",
      REDIS_PORT               |-> 6379,
      UPSTASH_REDIS_REST_URL   |-> "",
      UPSTASH_REDIS_REST_TOKEN |-> "",
      CACHE_EXPIRATION_SECONDS |-> 14400 ]

HasSetting(name) == name \in DOMAIN settings

----------------------------------------------------------------------------
(* app/services/scraper.py *)

\* The upstream page of a platform: how the GET ends, and per section title
\* the table under its <h3> (Nil when the page has no such header).
\* A table: whether the enclosing blocks and <tbody> are there, and its rows.
\* A row: the text of its rank cell ("1." gives digits TRUE, num 1), whether
\* it has an <a>, the anchor text, the text of its last table-td cell and
\* how many table-td cells it has.
Row(digits, num, anchor, title, cells, days) ==
    [ digits |-> digits, num |-> num, anchor |-> anchor, title |-> title,
      cells |-> cells, days |-> days ]

GoodRow(i) == Row(TRUE, i, TRUE, IF i = 1 THEN "Kantara (2022)" ELSE "Jawan", 3,
                  IF i = 1 THEN "7 d" ELSE "12 d")

Table(container, tbody, rows) ==
    [ container |-> container, tbody |-> tbody, rows |-> rows ]

FetchStatuses == { "ok", "RequestError", "HTTPStatusError", "Exception" }

\* _fetch_and_parse: the soup of the page, or None on any failure
\* (a timeout is an httpx.RequestError)
fetch_and_parse(page) ==
    IF page.status = "ok" THEN Some(page.sections) ELSE Nil

\* one row of _parse_table_data: the raw dict, or nothing when the row is
\* skipped
parse_row(row, category) ==
    IF row.anchor /\ row.digits
    THEN << [ rank |-> row.num, title |-> row.title,
              days_in_top_10 |-> IF row.cells > 1 THEN row.days ELSE "N/A",
              category |-> category ] >>
    ELSE << >>

RECURSIVE parse_rows(_, _)
parse_rows(rows, category) ==
    IF rows = << >> THEN << >>
    ELSE parse_row(Head(rows), category) \o parse_rows(Tail(rows), category)

\* _parse_table_data: the raw dicts in row order, or None
parse_table_data(table, category) ==
    IF ~table.container THEN Nil
    ELSE IF ~table.tbody THEN Nil
    ELSE LET results == parse_rows(table.rows, category)
         IN  IF results # << >> THEN Some(results) ELSE Nil

\* TopTenItem(**item) for a raw dict: the model ignores the extra key
\* "category" and leaves the catalog fields None
item_of_raw(item) == TopTenItem(item.rank, item.title, item.days_in_top_10)

\* TopTenItem(**item, tmdb_id=..., ...) for a raw dict and a match
item_of_match(item, match) ==
    [ item_of_raw(item) EXCEPT
        !.tmdb_id = Some(match.tmdb_id),
        !.media_type = Some(match.media_type),
        !.year = match.year,
        !.match_confidence = Some(match.match_confidence),
        !.poster_path = match.poster_path ]

\* what asyncio.gather(..., return_exceptions=True) hands back for one
\* match_title task: an exception, None, or a match dict
MatchRaised == [ tag |-> "raise" ]
MatchNone == [ tag |-> "None" ]
MatchFound(m) == [ tag |-> "match", match |-> m ]

\* _enrich_with_tmdb, given the gather results in task order
enrich_with_tmdb(items, category, matches) ==
    IF ~HasSetting("TMDB_API_KEY") THEN Raised("AttributeError")
    ELSE IF settings.TMDB_API_KEY = ""
    THEN RetList([ i \in DOMAIN items |-> item_of_raw(items[i]) ])
    ELSE RetList([ i \in DOMAIN items |->
                    IF matches[i].tag = "match"
                    THEN item_of_match(items[i], matches[i].match)
                    ELSE item_of_raw(items[i]) ])

\* get_top_10_for_category up to the await of _enrich_with_tmdb: the value
\* returned early, or the raw items handed to the enrichment
scrape_raw(page, section_title, category) ==
    LET soup == fetch_and_parse(page)
    IN  IF soup = Nil THEN [ done |-> TRUE, raw |-> << >> ]
        ELSE IF soup[1][section_title] = Nil THEN [ done |-> TRUE, raw |-> << >> ]
        ELSE LET raw_items == parse_table_data(soup[1][section_title][1], category)
             IN  IF raw_items = Nil THEN [ done |-> TRUE, raw |-> << >> ]
                 ELSE [ done |-> FALSE, raw |-> raw_items[1] ]

\* the parameters of get_top_10_for_category after self (scraper.py:128);
\* a call binds them positionally and raises TypeError when one is missing
get_top_10_for_category_params == << "platform_slug", "section_title", "category" >>

bind_call(params, args) ==
    IF Len(args) = Len(params) THEN "bound" ELSE "TypeError"

----------------------------------------------------------------------------
(* The Redis store *)

\* f"india:{platform_slug}:{category_key}" and "india:fetchall"
cache_key(platform_slug, category_key) == << "india", platform_slug, category_key >>
FETCHALL_KEY == << "india", "fetchall" >>

\* what GET answers: nothing (None), or a stored text.  A text is the empty
\* string, text that is no JSON, or the JSON of a list of dicts.
NoText == [ kind |-> "nil" ]
EmptyText == [ kind |-> "empty" ]
Garbage == [ kind |-> "garbage" ]
JsonList(dicts) == [ kind |-> "json", doc |-> dicts ]

\* `if cached:` : None and "" are falsy
TruthyText(text) == text.kind \notin { "nil", "empty" }

\* item.model_dump(): the dict of all eight fields
model_dump(item) == [ f \in ItemFields |-> item[f] ]

\* json.dumps([item.model_dump() for item in data])
dumps_items(data) == JsonList([ i \in DOMAIN data |-> model_dump(data[i]) ])

\* TopTenItem(**d) for a dict read back from JSON: a ValidationError
\* when a required field is missing, fields the dict lacks are None
valid_item_dict(d) == RequiredItemFields \subseteq DOMAIN d

\* a TopTenItem built from the required fields of the dict only
item_of_dict_required_only(d) ==
    [ f \in ItemFields |-> IF f \in RequiredItemFields THEN d[f] ELSE Nil ]

item_of_dict(d) ==
    [ f \in ItemFields |-> IF f \in DOMAIN d THEN d[f] ELSE Nil ]

\* the try block of lines 57-63 without its except clause: a failure of the
\* GET or of the decoding leaves get_cached_or_scrape
read_cached_unguarded(got) ==
    IF got.exc
    THEN [ hit |-> FALSE, how |-> "error", items |-> << >>, exc |-> "ConnectionError" ]
    ELSE IF ~TruthyText(got.text)
    THEN [ hit |-> FALSE, how |-> "miss", items |-> << >>, exc |-> "" ]
    ELSE IF got.text.kind # "json"
    THEN [ hit |-> FALSE, how |-> "undecodable", items |-> << >>,
           exc |-> "JSONDecodeError" ]
    ELSE IF \E i \in DOMAIN got.text.doc : ~valid_item_dict(got.text.doc[i])
    THEN [ hit |-> FALSE, how |-> "undecodable", items |-> << >>,
           exc |-> "ValidationError" ]
    ELSE [ hit |-> TRUE, how |-> "hit", exc |-> "",
           items |-> [ i \in DOMAIN got.text.doc |-> item_of_dict(got.text.doc[i]) ] ]

\* lines 57-63 of get_cached_or_scrape, given how the GET ended: the list
\* returned on a hit, or a miss (nothing cached, or an exception caught and
\* logged); and the exception that leaves the try block (none)
read_cached(got) ==
    IF got.exc THEN [ hit |-> FALSE, how |-> "error", items |-> << >>, exc |-> "" ]
    ELSE IF ~TruthyText(got.text)
    THEN [ hit |-> FALSE, how |-> "miss", items |-> << >>, exc |-> "" ]
    ELSE IF got.text.kind # "json"
    THEN [ hit |-> FALSE, how |-> "undecodable", items |-> << >>, exc |-> "" ]
    ELSE IF \E i \in DOMAIN got.text.doc : ~valid_item_dict(got.text.doc[i])
    THEN [ hit |-> FALSE, how |-> "undecodable", items |-> << >>, exc |-> "" ]
    ELSE [ hit |-> TRUE, how |-> "hit", exc |-> "",
           items |-> [ i \in DOMAIN got.text.doc |-> item_of_dict(got.text.doc[i]) ] ]

\* redis_client.get(key), as it ends in the current state
redis_get(key) ==
    IF redis_ok THEN [ exc |-> FALSE, text |-> cache[key] ]
    ELSE [ exc |-> TRUE, text |-> NoText ]

\* setex outside a try block: a failure of the write leaves the caller
setex_unguarded(key, text) ==
    [ store |-> IF redis_ok THEN [ cache EXCEPT ![key] = text ] ELSE cache,
      exc |-> IF redis_ok THEN "" ELSE "ConnectionError" ]

\* try: redis_client.setex(key, ttl, text) except Exception: log.  The
\* store afterwards, and the exception that leaves the block (none: a
\* failure is logged and the store is left as it was)
try_setex(key, text) ==
    [ store |-> IF redis_ok THEN [ cache EXCEPT ![key] = text ] ELSE cache,
      exc |-> "" ]

\* lines 65-72: after a miss, the section lookup and the call of the
\* scraper with the two arguments the call site passes
after_miss(platform_slug, category_key) ==
    IF category_key \notin DOMAIN CATEGORY_MAP THEN [ next |-> "return", out |-> RetNone ]
    ELSE LET section_title == CATEGORY_MAP[category_key]
         IN  IF bind_call(get_top_10_for_category_params,
                          << platform_slug, section_title >>) = "TypeError"
             THEN [ next |-> "return", out |-> Raised("TypeError") ]
             ELSE [ next |-> "scrape", out |-> RetNone ]

\* get_top_10_for_category called with all three arguments, given the
\* gather results of the enrichment
get_top_10_for_category(page, section_title, category, matches) ==
    LET r == scrape_raw(page, section_title, category)
    IN  IF r.done THEN RetNone ELSE enrich_with_tmdb(r.raw, category, matches)

\* lines 74-86: what get_cached_or_scrape does with the scraper's answer:
\* the store afterwards and the value handed to the caller
after_scrape(key, data) ==
    IF data.tag = "raise" THEN [ store |-> cache, wrote |-> FALSE, out |-> data ]
    ELSE IF TruthyResult(data)
    THEN LET w == try_setex(key, dumps_items(data.items))
         IN  [ store |-> w.store, wrote |-> TRUE,
               out |-> IF w.exc = "" THEN data ELSE Raised(w.exc) ]
    ELSE [ store |-> cache, wrote |-> FALSE, out |-> data ]

----------------------------------------------------------------------------
(* GET /{platform}/{category} *)

\* the checks of the platform and of the category without the check of
\* the combination
validate_names_only(platform, category) ==
    IF platform \notin DOMAIN PLATFORM_CONFIG THEN 404
    ELSE IF category \notin DOMAIN CATEGORY_MAP THEN 404
    ELSE 0

\* lines 117-143 of get_single_category: 0 when the pair is accepted, else
\* the status of the HTTPException
validate(platform, category) ==
    IF platform \notin DOMAIN PLATFORM_CONFIG THEN 404
    ELSE IF category \notin DOMAIN CATEGORY_MAP THEN 404
    ELSE IF CATEGORY_MAP[category] \notin Range(PLATFORM_CONFIG[platform]) THEN 404
    ELSE 0

\* lines 145-153: the response for what get_cached_or_scrape produced; an
\* exception it raised leaves the handler and the framework answers 500
respond(out) ==
    IF out.tag = "raise" THEN 500
    ELSE IF out.tag = "None" THEN 503
    ELSE 200

Slots == 1 .. MaxSlots

\* the (platform, category) pairs requests are made with: a supported pair,
\* an excluded combination, an unknown platform, an unknown category
EndpointInputs ==
    { << "netflix", "movies" >>, << "zee5", "movies" >>, << "hulu", "movies" >>,
      << "netflix", "anime" >> }
\* the arguments get_cached_or_scrape is called with as a function
CallInputs == { << "netflix", "movies" >>, << "netflix", "anime" >> }

IdleReq ==
    [ pc |-> "idle", via |-> "", platform |-> "", category |-> "",
      read |-> "", called |-> FALSE, wrote |-> FALSE, out |-> RetNone, http |-> 0 ]

\* a request arrives at the endpoint: it is validated and, when accepted,
\* awaits the GET of get_cached_or_scrape
get_single_category(r, platform, category) ==
    /\ req[r].pc = "idle"
    /\ LET v == validate(platform, category)
       IN  req' = [ req EXCEPT ![r] =
                      [ IdleReq EXCEPT !.via = "endpoint", !.platform = platform,
                                       !.category = category,
                                       !.pc = IF v = 0 THEN "get" ELSE "done",
                                       !.http = v ] ]
    /\ UNCHANGED << cache, redis_ok, upstream, scr, agg, tmdb, matcher >>

\* get_cached_or_scrape called as a function (as the tasks of fetch_all call
\* it): it awaits its GET
get_cached_or_scrape(r, platform_slug, category_key) ==
    /\ req[r].pc = "idle"
    /\ req' = [ req EXCEPT ![r] =
                  [ IdleReq EXCEPT !.via = "call", !.platform = platform_slug,
                                   !.category = category_key, !.pc = "get" ] ]
    /\ UNCHANGED << cache, redis_ok, upstream, scr, agg, tmdb, matcher >>

\* the call ends: its caller gets `out`; the endpoint turns it into a status
finish(r, read, called, wrote, out) ==
    [ req[r] EXCEPT !.pc = "done", !.read = read, !.called = called,
                    !.wrote = wrote, !.out = out,
                    !.http = IF req[r].via = "endpoint" THEN respond(out) ELSE 0 ]

\* get_cached_or_scrape going to the section lookup and the scraper
\* whatever the GET of the key answered
resolve_after_get_bypassing_cache(platform_slug, category_key, got) ==
    LET am == after_miss(platform_slug, category_key)
    IN  [ next |-> am.next, read |-> "miss",
          called |-> category_key \in DOMAIN CATEGORY_MAP, out |-> am.out ]

\* get_cached_or_scrape from the return of its GET to its next await or its
\* end: how the read went, whether the scraper was called, and either the
\* value for the caller or the await of the scraper
resolve_after_get(platform_slug, category_key, got) ==
    LET rc == read_cached(got)
        am == after_miss(platform_slug, category_key)
    IN  IF rc.exc # ""
        THEN [ next |-> "return", read |-> rc.how, called |-> FALSE,
               out |-> Raised(rc.exc) ]
        ELSE IF rc.hit
        THEN [ next |-> "return", read |-> rc.how, called |-> FALSE,
               out |-> RetList(rc.items) ]
        ELSE [ next |-> am.next, read |-> rc.how,
               called |-> category_key \in DOMAIN CATEGORY_MAP, out |-> am.out ]

\* get_cached_or_scrape from the return of the scraper to its end
resolve_after_scrape(platform_slug, category_key) ==
    after_scrape(cache_key(platform_slug, category_key),
                 get_top_10_for_category(
                     upstream[platform_slug], CATEGORY_MAP[category_key],
                     category_key, [ i \in 1 .. MaxRows |-> MatchNone ]))

\* the awaited call of a request returns and the coroutine runs on to its
\* next await or to its end
resume(r) ==
    /\ UNCHANGED << redis_ok, upstream, scr, agg, tmdb, matcher >>
    /\ LET q == req[r]
       IN
        CASE q.pc = "get" ->
               LET g == resolve_after_get(q.platform, q.category,
                                          redis_get(cache_key(q.platform, q.category)))
               IN  /\ req' = [ req EXCEPT ![r] =
                                 IF g.next = "return"
                                 THEN finish(r, g.read, g.called, FALSE, g.out)
                                 ELSE [ q EXCEPT !.pc = "scrape", !.read = g.read,
                                                 !.called = TRUE ] ]
                   /\ UNCHANGED cache
          [] q.pc = "scrape" ->
               LET w == resolve_after_scrape(q.platform, q.category)
               IN  /\ req' = [ req EXCEPT ![r] = finish(r, q.read, TRUE, w.wrote, w.out) ]
                   /\ cache' = w.store
          [] OTHER -> FALSE

\* the client has its answer; the slot takes the next request
next_request(r) ==
    /\ req[r].pc = "done"
    /\ req' = [ req EXCEPT ![r] = IdleReq ]
    /\ UNCHANGED << cache, redis_ok, upstream, scr, agg, tmdb, matcher >>

\* a key reaches its TTL (settings.CACHE_EXPIRATION_SECONDS) and is dropped
expire(key) ==
    /\ cache[key] # NoText
    /\ cache' = [ cache EXCEPT ![key] = NoText ]
    /\ UNCHANGED << redis_ok, req, upstream, scr, agg, tmdb, matcher >>

\* Redis becomes unreachable, or reachable again
redis_flip ==
    /\ redis_ok' = ~redis_ok
    /\ UNCHANGED << cache, req, upstream, scr, agg, tmdb, matcher >>

----------------------------------------------------------------------------
(* GET /fetchall *)

\* next((k for k, v in CATEGORY_MAP.items() if v == section_title), None)
RECURSIVE first_key_of(_, _)
first_key_of(keys, section_title) ==
    IF keys = << >> THEN Nil
    ELSE IF CATEGORY_MAP[Head(keys)] = section_title THEN Some(Head(keys))
    ELSE first_key_of(Tail(keys), section_title)

category_key_of(section_title) == first_key_of(CATEGORY_ORDER, section_title)

\* lines 175-192: one task per section of every platform, in dict order
RECURSIVE tasks_of_sections(_, _)
tasks_of_sections(platform_slug, sections) ==
    IF sections = << >> THEN << >>
    ELSE LET category_key == category_key_of(Head(sections))
         IN  ( IF category_key # Nil
               THEN << [ platform |-> platform_slug, category |-> category_key[1] ] >>
               ELSE << >> )
             \o tasks_of_sections(platform_slug, Tail(sections))

RECURSIVE tasks_of_platforms(_)
tasks_of_platforms(platforms) ==
    IF platforms = << >> THEN << >>
    ELSE tasks_of_sections(Head(platforms), PLATFORM_CONFIG[Head(platforms)])
         \o tasks_of_platforms(Tail(platforms))

task_mapping == tasks_of_platforms(PLATFORM_ORDER)

\* a Python dict: d[k] = v
EmptyDict == [ k \in { } |-> 0 ]
Put(d, k, v) == [ x \in DOMAIN d \cup { k } |-> IF x = k THEN v ELSE d[x] ]

\* a PlatformStatus built without its count, which is then the default 0
PlatformStatus_default_count(available, count, status) ==
    [ available |-> available, count |-> 0, status |-> status ]

PlatformStatus(available, count, status) ==
    [ available |-> available, count |-> count, status |-> status ]

\* category_key.replace('-', '_')
model_category_field(category_key) ==
    IF category_key = "tv-shows" THEN "tv_shows" ELSE category_key

\* PLATFORM_SLUG_TO_MODEL_KEY.get(platform_slug, platform_slug)
model_platform_key(platform_slug) ==
    IF platform_slug \in DOMAIN PLATFORM_SLUG_TO_MODEL_KEY
    THEN PLATFORM_SLUG_TO_MODEL_KEY[platform_slug] ELSE platform_slug

\* acc with the status entry of the pair set, and with the list of the pair
\* stored in the data
put_status(acc, mapping, st) ==
    LET ps == IF mapping.platform \notin DOMAIN acc.platform_summary
              THEN Put(acc.platform_summary, mapping.platform, EmptyDict)
              ELSE acc.platform_summary
    IN  [ acc EXCEPT !.platform_summary =
              Put(ps, mapping.platform, Put(ps[mapping.platform], mapping.category, st)) ]

put_data(acc, mapping, items) ==
    LET k == IF mapping.platform \in DOMAIN PLATFORM_SLUG_TO_MODEL_KEY
             THEN PLATFORM_SLUG_TO_MODEL_KEY[mapping.platform] ELSE mapping.platform
        f == IF mapping.category = "tv-shows" THEN "tv_shows" ELSE mapping.category
        rd == IF k \notin DOMAIN acc.response_data
              THEN Put(acc.response_data, k, EmptyDict)
              ELSE acc.response_data
    IN  [ acc EXCEPT !.response_data = Put(rd, k, Put(rd[k], f, items)) ]

\* the loop body storing every result that is no exception in the data,
\* the empty list and None (as no items) included
classify_null_filled(acc, mapping, result) ==
    IF result.tag = "raise"
    THEN put_status(acc, mapping, PlatformStatus(FALSE, 0, << "Error" >>))
    ELSE IF result.tag = "list" /\ Len(result.items) > 0
    THEN put_status(
             [ put_data(acc, mapping, result.items) EXCEPT
                   !.successful_requests = acc.successful_requests + 1 ],
             mapping,
             PlatformStatus(TRUE, Len(result.items),
                            << "Success", Len(result.items) >>))
    ELSE put_status(put_data(acc, mapping, result.items), mapping,
                    PlatformStatus(FALSE, 0, << "No data" >>))

\* the loop body without the isinstance(result, Exception) branch: an
\* exception is falsy here and falls to the "No data" branch
classify_error_as_no_data(acc, mapping, result) ==
    IF result.tag = "list" /\ Len(result.items) > 0
    THEN put_status(
             [ put_data(acc, mapping, result.items) EXCEPT
                   !.successful_requests = acc.successful_requests + 1 ],
             mapping,
             PlatformStatus(TRUE, Len(result.items),
                            << "Success", Len(result.items) >>))
    ELSE put_status(acc, mapping, PlatformStatus(FALSE, 0, << "No data" >>))

\* lines 203-242: one turn of the loop over the gathered results
classify(acc, mapping, result) ==
    LET platform_slug == mapping.platform
        category_key == mapping.category
        ps == IF platform_slug \notin DOMAIN acc.platform_summary
              THEN Put(acc.platform_summary, platform_slug, EmptyDict)
              ELSE acc.platform_summary
        status(st) == Put(ps, platform_slug, Put(ps[platform_slug], category_key, st))
    IN  IF result.tag = "raise"
        THEN [ acc EXCEPT !.platform_summary =
                              status(PlatformStatus(FALSE, 0, << "Error" >>)) ]
        ELSE IF TruthyResult(result)
        THEN LET k == model_platform_key(platform_slug)
                 rd == IF k \notin DOMAIN acc.response_data
                       THEN Put(acc.response_data, k, EmptyDict)
                       ELSE acc.response_data
             IN  [ response_data |->
                       Put(rd, k, Put(rd[k], model_category_field(category_key),
                                      result.items)),
                   successful_requests |-> acc.successful_requests + 1,
                   platform_summary |->
                       status(PlatformStatus(TRUE, Len(result.items),
                                             << "Success", Len(result.items) >>)) ]
        ELSE [ acc EXCEPT !.platform_summary =
                              status(PlatformStatus(FALSE, 0, << "No data" >>)) ]

\* the loop left at the first result that is an exception
RECURSIVE classify_until_exception(_, _, _)
classify_until_exception(acc, results, i) ==
    IF i > Len(results) THEN acc
    ELSE IF results[i].tag = "raise" THEN classify(acc, task_mapping[i], results[i])
    ELSE classify_until_exception(classify(acc, task_mapping[i], results[i]),
                                  results, i + 1)

\* lines 203-242: the loop over the gathered results
RECURSIVE classify_all(_, _, _)
classify_all(acc, results, i) ==
    IF i > Len(results) THEN acc
    ELSE classify_all(classify(acc, task_mapping[i], results[i]), results, i + 1)

\* the report whose summary counts as successful every platform that has a
\* status entry
assemble_counting_status_platforms(results, timestamp) ==
    LET acc == classify_all([ response_data |-> EmptyDict,
                              successful_requests |-> 0,
                              platform_summary |-> EmptyDict ], results, 1)
    IN  [ summary |->
            [ timestamp |-> timestamp,
              total_platforms |-> Cardinality(DOMAIN PLATFORM_CONFIG),
              successful_platforms |-> Cardinality(DOMAIN acc.platform_summary),
              total_requests |-> Len(results),
              successful_requests |-> acc.successful_requests,
              cache_hit_rate |-> "0%",
              platforms |-> acc.platform_summary ],
          data |-> acc.response_data ]

\* the report whose summary gives the number of tasks as total_platforms
assemble_total_pairs(results, timestamp) ==
    LET acc == classify_all([ response_data |-> EmptyDict,
                              successful_requests |-> 0,
                              platform_summary |-> EmptyDict ], results, 1)
    IN  [ summary |->
            [ timestamp |-> timestamp,
              total_platforms |-> Len(results),
              successful_platforms |-> Cardinality(DOMAIN acc.response_data),
              total_requests |-> Len(results),
              successful_requests |-> acc.successful_requests,
              cache_hit_rate |-> "0%",
              platforms |-> acc.platform_summary ],
          data |-> acc.response_data ]

\* lines 197-258: the FetchAllResponse built from the gathered results
assemble(results, timestamp) ==
    LET acc == classify_all([ response_data |-> EmptyDict,
                              successful_requests |-> 0,
                              platform_summary |-> EmptyDict ], results, 1)
    IN  [ summary |->
            [ timestamp |-> timestamp,
              total_platforms |-> Cardinality(DOMAIN PLATFORM_CONFIG),
              successful_platforms |-> Cardinality(DOMAIN acc.response_data),
              total_requests |-> Len(results),
              successful_requests |-> acc.successful_requests,
              cache_hit_rate |-> "0%",
              platforms |-> acc.platform_summary ],
          data |-> acc.response_data ]

\* the text written for a report, were a report without any successful
\* request not cached (the write then stores nothing)
dump_report_if_any_success(report) ==
    IF report.summary.successful_requests > 0
    THEN [ kind |-> "report", doc |-> report ]
    ELSE [ kind |-> "nil" ]

\* final_response.model_dump_json()
dump_report(report) == [ kind |-> "report", doc |-> report ]

\* the read of the aggregate key with its result dropped: the handler
\* always goes on to its tasks
read_cached_report_dropped(got) == [ exc |-> "", report |-> Nil ]

\* lines 167-172: the cached FetchAllResponse, or nothing when the GET
\* raised, nothing is stored or the text does not validate; and the
\* exception that leaves the try block (none: all are caught and logged)
read_cached_report(got) ==
    [ exc |-> "",
      report |-> IF got.exc THEN Nil
                 ELSE IF ~TruthyText(got.text) THEN Nil
                 ELSE IF got.text.kind # "report" THEN Nil
                 ELSE Some(got.text.doc) ]

\* asyncio.gather(*tasks, return_exceptions=True): the results in task
\* order, an exception of a task being its result
gather(outs) == [ exc |-> "", results |-> outs ]

IdleAgg == [ pc |-> "idle", run |-> 0, tasks |-> << >>, response |-> Nil, source |-> "" ]

NewTask == [ pc |-> "get", read |-> "", called |-> FALSE, wrote |-> FALSE, out |-> RetNone ]

\* an exception leaves the handler: the request fails
raise_fetch_all(exc) ==
    [ agg EXCEPT !.pc = "done", !.response = Nil, !.source = exc ]

\* a request for /fetchall arrives: the handler awaits the GET of its key
fetch_all ==
    /\ agg.pc \in { "idle", "done" }
    /\ agg.run < MaxRuns
    /\ agg' = [ IdleAgg EXCEPT !.pc = "get", !.run = agg.run + 1 ]
    /\ UNCHANGED << cache, redis_ok, req, upstream, scr, tmdb, matcher >>

\* the handler runs on: from the GET to the gather of its tasks (or to the
\* cached answer), and from the end of the gather to its return
fetch_all_resume ==
    /\ UNCHANGED << redis_ok, req, upstream, scr, tmdb, matcher >>
    /\ CASE agg.pc = "get" ->
              LET c == read_cached_report(redis_get(FETCHALL_KEY))
              IN  /\ agg' = IF c.exc # "" THEN raise_fetch_all(c.exc)
                            ELSE IF c.report # Nil
                            THEN [ agg EXCEPT !.pc = "done", !.response = c.report,
                                              !.source = "cache" ]
                            ELSE [ agg EXCEPT !.pc = "gather",
                                              !.tasks = [ i \in DOMAIN task_mapping |-> NewTask ] ]
                  /\ UNCHANGED cache
         [] agg.pc = "gather" /\ \A i \in DOMAIN agg.tasks : agg.tasks[i].pc = "done" ->
              LET g == gather([ i \in DOMAIN agg.tasks |-> agg.tasks[i].out ])
                  final_response == assemble(g.results, agg.run)
                  w == try_setex(FETCHALL_KEY, dump_report(final_response))
              IN  IF g.exc # ""
                  THEN agg' = raise_fetch_all(g.exc) /\ UNCHANGED cache
                  ELSE /\ cache' = w.store
                       /\ agg' = IF w.exc # "" THEN raise_fetch_all(w.exc)
                                 ELSE [ agg EXCEPT !.pc = "done",
                                                   !.response = Some(final_response),
                                                   !.source = "fresh" ]
         [] OTHER -> FALSE

\* task i of the gather runs on from its awaited call
task_resume(i) ==
    /\ agg.pc = "gather"
    /\ UNCHANGED << redis_ok, req, upstream, scr, tmdb, matcher >>
    /\ LET t == agg.tasks[i]
           m == task_mapping[i]
       IN
        CASE t.pc = "get" ->
               LET g == resolve_after_get(m.platform, m.category,
                                          redis_get(cache_key(m.platform, m.category)))
               IN  /\ agg' = [ agg EXCEPT !.tasks[i] =
                                 [ t EXCEPT !.pc = IF g.next = "return" THEN "done" ELSE "scrape",
                                            !.read = g.read, !.called = g.called,
                                            !.out = g.out ] ]
                   /\ UNCHANGED cache
          [] t.pc = "scrape" ->
               LET w == resolve_after_scrape(m.platform, m.category)
               IN  /\ agg' = [ agg EXCEPT !.tasks[i] =
                                 [ t EXCEPT !.pc = "done", !.wrote = w.wrote, !.out = w.out ] ]
                   /\ cache' = w.store
          [] OTHER -> FALSE

\* no call has ended its gather yet, or the handler or one of its tasks is
\* between the GET of the aggregate key and the end of the gather
gathering ==
    \/ agg.pc \in { "idle", "get" }
    \/ agg.pc = "gather" /\ \E i \in DOMAIN agg.tasks : agg.tasks[i].pc # "done"

\* Redis becomes unreachable or reachable again between the phases of a run
\* (not between the GETs of the tasks of one gather)
redis_flip_between ==
    /\ ~gathering
    /\ redis_ok' = ~redis_ok
    /\ UNCHANGED << cache, req, upstream, scr, agg, tmdb, matcher >>

\* the aggregate key reaches its TTL between the phases of a run
expire_fetchall ==
    /\ ~gathering
    /\ expire(FETCHALL_KEY)

----------------------------------------------------------------------------
(* One call of FlixPatrolScraper.get_top_10_for_category *)

IdleScr ==
    [ pc |-> "idle", platform |-> "", section_title |-> "", category |-> "",
      raw |-> << >>, matches |-> << >>, result |-> RetNone ]

\* the answers one match_title task may end with
SampleMatches ==
    { MatchRaised, MatchNone,
      MatchFound([ tmdb_id |-> 501, media_type |-> "movie", year |-> Some(2022),
                   match_confidence |-> 842, poster_path |-> Some("/p.jpg") ]) }

\* the method is called with its three arguments and awaits the GET of the
\* platform page
scraper_call(platform_slug, section_title, category) ==
    /\ scr.pc = "idle"
    /\ scr' = [ IdleScr EXCEPT !.pc = "fetch", !.platform = platform_slug,
                               !.section_title = section_title, !.category = category ]
    /\ UNCHANGED << cache, redis_ok, req, upstream, agg, tmdb, matcher >>

\* the call runs on: from the GET of the page to the await of the gather in
\* _enrich_with_tmdb (or to its end), and from the gather to its end
scraper_resume ==
    /\ UNCHANGED << cache, redis_ok, req, upstream, agg, tmdb, matcher >>
    /\ CASE scr.pc = "fetch" ->
              LET r == scrape_raw(upstream[scr.platform], scr.section_title, scr.category)
              IN  scr' = IF r.done
                         THEN [ scr EXCEPT !.pc = "done", !.result = RetNone ]
                         ELSE IF ~HasSetting("TMDB_API_KEY") \/ settings.TMDB_API_KEY = ""
                         THEN [ scr EXCEPT !.pc = "done", !.raw = r.raw,
                                           !.result = enrich_with_tmdb(r.raw, scr.category,
                                                                       << >>) ]
                         ELSE [ scr EXCEPT !.pc = "gather", !.raw = r.raw ]
         [] scr.pc = "gather" ->
              \E matches \in [ DOMAIN scr.raw -> SampleMatches ] :
                  scr' = [ scr EXCEPT !.pc = "done", !.matches = matches,
                                      !.result = enrich_with_tmdb(scr.raw, scr.category,
                                                                  matches) ]
         [] OTHER -> FALSE

\* the caller has the answer; the next call may be made
scraper_next ==
    /\ scr.pc = "done"
    /\ scr' = IdleScr
    /\ UNCHANGED << cache, redis_ok, req, upstream, agg, tmdb, matcher >>

----------------------------------------------------------------------------
(* app/services/tmdb_matcher.py: strings.  A string is a sequence of       *)
(* one-character strings.                                                  *)

UPPERCASE ==
    << "A", "B", "C", "D", "E", "F", "G", "H", "I", "J", "K", "L", "M",
       "N", "O", "P", "Q", "R", "S", "T", "U", "V", "W", "X", "Y", "Z" >>
LOWERCASE ==
    << "a", "b", "c", "d", "e", "f", "g", "h", "i", "j", "k", "l", "m",
       "n", "o", "p", "q", "r", "s", "t", "u", "v", "w", "x", "y", "z" >>
DIGITS == << "0", "1", "2", "3", "4", "5", "6", "7", "8", "9" >>

\* the classes \d, \s and \w of the patterns (ASCII)
IsDigit(c) == c \in Range(DIGITS)
IsSpace(c) == c = " "
IsWord(c) == c \in Range(UPPERCASE) \cup Range(LOWERCASE) \cup Range(DIGITS) \cup { "_" }

\* str.lower()
lower_char(c) ==
    IF c \in Range(UPPERCASE) THEN LOWERCASE[CHOOSE i \in DOMAIN UPPERCASE : UPPERCASE[i] = c]
    ELSE c
lower(str) == [ i \in DOMAIN str |-> lower_char(str[i]) ]

\* int(c) for a digit
digit_value(c) == ( CHOOSE i \in DOMAIN DIGITS : DIGITS[i] = c ) - 1

\* str[i:j] of Python for the 1-based positions i .. j
Slice(str, i, j) == IF i > j THEN << >> ELSE SubSeq(str, i, j)

\* the string has the literal sub at position i
HasAt(str, sub, i) ==
    /\ i >= 1
    /\ i + Len(sub) - 1 <= Len(str)
    /\ \A k \in DOMAIN sub : str[i + k - 1] = sub[k]

\* "(dddd)" stands at position i
YearParenAt(str, i) ==
    /\ i >= 1
    /\ i + 5 <= Len(str)
    /\ str[i] = "(" /\ str[i + 5] = ")"
    /\ \A k \in 1 .. 4 : IsDigit(str[i + k])

\* how many positions of the set `members` stand in a row from position i
\* on, and from position i backwards
RECURSIVE RunFrom(_, _, _)
RunFrom(str, members, i) ==
    IF i > Len(str) \/ i \notin members THEN 0 ELSE 1 + RunFrom(str, members, i + 1)

RECURSIVE RunBefore(_, _, _)
RunBefore(str, members, i) ==
    IF i < 1 \/ i \notin members THEN 0 ELSE 1 + RunBefore(str, members, i - 1)

SpacesOf(str) == { i \in DOMAIN str : IsSpace(str[i]) }
DigitsOf(str) == { i \in DOMAIN str : IsDigit(str[i]) }

\* str.strip()
strip(str) ==
    LET lead == RunFrom(str, SpacesOf(str), 1)
        trail == RunBefore(str, SpacesOf(str), Len(str))
    IN  IF lead = Len(str) THEN << >> ELSE Slice(str, lead + 1, Len(str) - trail)

\* str.replace(sub, ''), sub not empty: every occurrence found left to right
RECURSIVE remove_all(_, _, _)
remove_all(str, sub, i) ==
    IF i > Len(str) THEN << >>
    ELSE IF HasAt(str, sub, i) THEN remove_all(str, sub, i + Len(sub))
    ELSE << str[i] >> \o remove_all(str, sub, i + 1)

\* ' '.join(str.split())
RECURSIVE join_split(_, _)
join_split(str, i) ==
    IF i > Len(str) THEN << >>
    ELSE IF IsSpace(str[i])
    THEN LET n == RunFrom(str, SpacesOf(str), i)
         IN  IF i = 1 \/ i + n > Len(str) THEN join_split(str, i + n)
             ELSE << " " >> \o join_split(str, i + n)
    ELSE << str[i] >> \o join_split(str, i + 1)


----------------------------------------------------------------------------
(* app/services/tmdb_matcher.py: titles *)

\* re.sub(r'[^\w\s\-\']', ' ', title)
blank_specials(title) ==
    [ i \in DOMAIN title |->
        IF IsWord(title[i]) \/ IsSpace(title[i]) \/ title[i] \in { "-", "'" }
        THEN title[i] ELSE " " ]

SUFFIX_WORDS ==
    { << "s", "e", "a", "s", "o", "n" >>, << "p", "a", "r", "t" >>, << "v", "o", "l" >> }

\* re.sub(r'\s+(Season\s+\d+|Part\s+\d+|Vol\s+\d+)$', '', title,
\*        flags=re.IGNORECASE)
drop_suffix(title) ==
    LET n == Len(title)
        d == RunBefore(title, DigitsOf(title), n)
        w2 == RunBefore(title, SpacesOf(title), n - d)
        e == n - d - w2
        words == { w \in SUFFIX_WORDS : HasAt(lower(title), w, e - Len(w) + 1) }
    IN  IF d = 0 \/ w2 = 0 \/ words = { } THEN title
        ELSE LET w == CHOOSE x \in words : TRUE
                 w1 == RunBefore(title, SpacesOf(title), e - Len(w))
             IN  IF w1 = 0 THEN title ELSE Slice(title, 1, e - Len(w) - w1)

\* re.sub(r'\s*\(\d{4}\)\s*', ' ', title)
RECURSIVE blank_year_parens(_, _)
blank_year_parens(title, i) ==
    IF i > Len(title) THEN << >>
    ELSE LET j == i + RunFrom(title, SpacesOf(title), i)
         IN  IF YearParenAt(title, j)
             THEN << " " >> \o blank_year_parens(
                                  title, j + 6 + RunFrom(title, SpacesOf(title), j + 6))
             ELSE << title[i] >> \o blank_year_parens(title, i + 1)

\* normalize_title
normalize_title(title) ==
    strip(join_split(blank_year_parens(drop_suffix(blank_specials(title)), 1), 1))

\* the first position where "(dddd)" stands, 0 when there is none
first_year_paren(title) ==
    LET at == { i \in DOMAIN title : YearParenAt(title, i) }
    IN  IF at = { } THEN 0 ELSE CHOOSE i \in at : \A k \in at : i <= k

\* extract_year_from_title: (clean_title, year), year None without a match
extract_year_from_title(title) ==
    LET i == first_year_paren(title)
    IN  IF i = 0 THEN [ clean_title |-> title, year |-> Nil ]
        ELSE [ clean_title |-> strip(remove_all(title, Slice(title, i, i + 5), 1)),
               year |-> Some(1000 * digit_value(title[i + 1])
                             + 100 * digit_value(title[i + 2])
                             + 10 * digit_value(title[i + 3])
                             + digit_value(title[i + 4])) ]

----------------------------------------------------------------------------
(* app/services/tmdb_matcher.py: similarity and scores.  A score is the   *)
(* exact fraction the float arithmetic of the code approximates.          *)

RECURSIVE GCD(_, _)
GCD(a, b) == IF b = 0 THEN a ELSE GCD(b, a % b)

\* the fraction n/d in lowest terms, d > 0
Frac(n, d) == LET g == GCD(n, d) IN [ n |-> n \div g, d |-> d \div g ]

Plus(x, y) == Frac(x.n * y.d + y.n * x.d, x.d * y.d)
Times(x, y) == Frac(x.n * y.n, x.d * y.d)
Less(x, y) == x.n * y.d < y.n * x.d
\* max(x, y) and min(x, y) of Python: the first argument on a tie
Max(x, y) == IF Less(x, y) THEN y ELSE x
Min(x, y) == IF Less(y, x) THEN y ELSE x

\* round(x, 3) in thousandths, a tie going to the even neighbour
round3(x) ==
    LET q == ( 1000 * x.n ) \div x.d
        r == ( 1000 * x.n ) % x.d
    IN  IF 2 * r > x.d THEN q + 1
        ELSE IF 2 * r < x.d THEN q
        ELSE IF q % 2 = 0 THEN q ELSE q + 1

\* the length of the common run of a[i..ahi] and b[j..bhi] from (i, j) on
RECURSIVE common_run(_, _, _, _, _, _)
common_run(a, b, i, j, ahi, bhi) ==
    IF i > ahi \/ j > bhi THEN 0
    ELSE IF a[i] # b[j] THEN 0
    ELSE 1 + common_run(a, b, i + 1, j + 1, ahi, bhi)

\* of the blocks whose sizes are given by start (i, j), the longest one that
\* starts earliest in a, and of those the one that starts earliest in b
earliest_longest(size) ==
    LET most == CHOOSE k \in Range(size) : \A p \in DOMAIN size : size[p] <= k
        longest == { p \in DOMAIN size : size[p] = most }
        first_a == CHOOSE i \in { p[1] : p \in longest } : \A p \in longest : i <= p[1]
        first_b == CHOOSE j \in { p[2] : p \in longest } :
                       /\ << first_a, j >> \in longest
                       /\ \A p \in longest : p[1] = first_a => j <= p[2]
    IN  << first_a, first_b, most >>

\* SequenceMatcher.find_longest_match on a[alo..ahi], b[blo..bhi]
find_longest_match(a, b, alo, ahi, blo, bhi) ==
    IF alo > ahi \/ blo > bhi THEN << alo, blo, 0 >>
    ELSE earliest_longest([ p \in ( alo .. ahi ) \X ( blo .. bhi ) |->
                              common_run(a, b, p[1], p[2], ahi, bhi) ])

\* the sum of the sizes of SequenceMatcher.get_matching_blocks: the longest
\* block m, and the blocks to its left and to its right
RECURSIVE matches(_, _, _, _, _, _)
RECURSIVE matches_around(_, _, _, _, _, _, _)
matches_around(a, b, alo, ahi, blo, bhi, m) ==
    IF m[3] = 0 THEN 0
    ELSE m[3] + matches(a, b, alo, m[1] - 1, blo, m[2] - 1)
              + matches(a, b, m[1] + m[3], ahi, m[2] + m[3], bhi)

matches(a, b, alo, ahi, blo, bhi) ==
    matches_around(a, b, alo, ahi, blo, bhi,
                   find_longest_match(a, b, alo, ahi, blo, bhi))

\* SequenceMatcher(None, a, b).ratio(): 2.0 * matches / length, 1.0 when both
\* are empty
ratio(a, b) ==
    IF Len(a) + Len(b) = 0 THEN Frac(1, 1)
    ELSE Frac(2 * matches(a, b, 1, Len(a), 1, Len(b)), Len(a) + Len(b))

\* calculate_similarity
calculate_similarity(str1, str2) == ratio(lower(str1), lower(str2))

----------------------------------------------------------------------------
(* app/services/tmdb_matcher.py: TMDBMatcher.  `self` is the record of   *)
(* the instance's api_key and current_year; a TMDB result is a record   *)
(* with the keys the dict has.                                          *)

\* dict.get(key), None when the key is missing
Get(d, key) == IF key \in DOMAIN d THEN d[key] ELSE Nil

\* x or y of Python (None and "" are falsy)
Or(x, y) == IF x # << >> THEN x ELSE y

\* `if year:` for an Optional[int]
TruthyYear(year) == year # Nil /\ year[1] # 0

\* the first position of "-" in the string, Len + 1 when there is none
first_dash(str) ==
    LET at == { i \in DOMAIN str : str[i] = "-" }
    IN  IF at = { } THEN Len(str) + 1 ELSE CHOOSE i \in at : \A k \in at : i <= k

\* int(str) for a string of digits
RECURSIVE int_of(_)
int_of(str) ==
    IF str = << >> THEN 0
    ELSE 10 * int_of(Slice(str, 1, Len(str) - 1)) + digit_value(str[Len(str)])

\* lines 112-119 of score_result (and 185-192 of match_title): the year of
\* release_date or first_air_date, None when there is no date or when int()
\* raises ValueError
result_year_of(result) ==
    LET release_date == Or(Get(result, "release_date"), Get(result, "first_air_date"))
        head == Slice(release_date, 1, first_dash(release_date) - 1)
    IN  IF release_date = << >> THEN Nil
        ELSE IF head = << >> \/ \E i \in DOMAIN head : ~IsDigit(head[i]) THEN Nil
        ELSE Some(int_of(head))

Abs(x) == IF x < 0 THEN -x ELSE x

\* the recency curve falling by a twentieth a year beyond ten years
calculate_year_score_by_twentieths(self, result_year) ==
    IF ~TruthyYear(result_year) THEN Frac(5, 10)
    ELSE LET year_diff == Abs(self.current_year - result_year[1])
         IN  IF year_diff <= 1 THEN Frac(1, 1)
             ELSE IF year_diff <= 3 THEN Frac(9, 10)
             ELSE IF year_diff <= 5 THEN Frac(8, 10)
             ELSE IF year_diff <= 10 THEN Frac(7, 10)
             ELSE Max(Frac(3, 10), Frac(20 - year_diff, 20))

\* calculate_year_score
calculate_year_score(self, result_year) ==
    IF ~TruthyYear(result_year) THEN Frac(5, 10)
    ELSE LET year_diff == Abs(self.current_year - result_year[1])
         IN  IF year_diff <= 1 THEN Frac(1, 1)
             ELSE IF year_diff <= 3 THEN Frac(9, 10)
             ELSE IF year_diff <= 5 THEN Frac(8, 10)
             ELSE IF year_diff <= 10 THEN Frac(7, 10)
             ELSE Max(Frac(3, 10), Frac(50 - year_diff, 50))

\* the year score of a result without the floor max(0.3, ...) in the
\* branch of the explicit year
year_score_of_unfloored(self, result_year, extracted_year) ==
    IF TruthyYear(extracted_year)
    THEN IF result_year = extracted_year THEN Frac(1, 1)
         ELSE IF TruthyYear(result_year)
         THEN Frac(20 - Abs(extracted_year[1] - result_year[1]), 20)
         ELSE Frac(5, 10)
    ELSE calculate_year_score(self, result_year)

\* lines 121-130 of score_result: the year score of a result
year_score_of(self, result_year, extracted_year) ==
    IF TruthyYear(extracted_year)
    THEN IF result_year = extracted_year THEN Frac(1, 1)
         ELSE IF TruthyYear(result_year)
         THEN Max(Frac(3, 10), Frac(20 - Abs(extracted_year[1] - result_year[1]), 20))
         ELSE Frac(5, 10)
    ELSE calculate_year_score(self, result_year)

\* the weighted sum and the two boosts without the cap min(1.0, ...)
final_score_uncapped(title_score, year_score, exact_title, vote_count) ==
    LET weighted == Plus(Times(title_score, Frac(7, 10)), Times(year_score, Frac(3, 10)))
        boosted == IF exact_title THEN Plus(weighted, Frac(1, 10)) ELSE weighted
    IN  IF vote_count > 1000 THEN Plus(boosted, Frac(5, 100)) ELSE boosted

\* lines 132-144 of score_result: the weighted sum and the two boosts
final_score(title_score, year_score, exact_title, vote_count) ==
    LET weighted == Plus(Times(title_score, Frac(7, 10)), Times(year_score, Frac(3, 10)))
        boosted == IF exact_title THEN Min(Frac(1, 1), Plus(weighted, Frac(1, 10)))
                   ELSE weighted
    IN  IF vote_count > 1000 THEN Min(Frac(1, 1), Plus(boosted, Frac(5, 100)))
        ELSE boosted

\* lines 104-105 of score_result: the titles of a result
title_of(result) == Or(Get(result, "title"), Get(result, "name"))
original_title_of(result) ==
    Or(Get(result, "original_title"), Get(result, "original_name"))

\* score_result
score_result(self, result, normalized_query, extracted_year) ==
    final_score(
        Max(calculate_similarity(normalized_query, title_of(result)),
            calculate_similarity(normalized_query, original_title_of(result))),
        year_score_of(self, result_year_of(result), extracted_year),
        lower(title_of(result)) = lower(normalized_query)
            \/ lower(original_title_of(result)) = lower(normalized_query),
        IF "vote_count" \in DOMAIN result THEN result.vote_count ELSE 0)

\* results[:10] of match_title inspects this many results
TOP_RESULTS == 10

\* search_tmdb: the "results" of the answer, None without api key or when
\* the request or the decoding of its answer raises
search_tmdb(self, answer) ==
    IF self.api_key = "" THEN Nil
    ELSE IF answer.status # "ok" THEN Nil
    ELSE Some(answer.results)

\* the dict match_title keeps for the best result so far
best_match_of(result, media_type, score) ==
    [ tmdb_id |-> Get(result, "id"),
      media_type |-> media_type,
      year |-> result_year_of(result),
      match_confidence |-> round3(score),
      poster_path |-> Get(result, "poster_path"),
      matched_title |-> Or(Get(result, "title"), Get(result, "name")) ]

\* lines 184-203 of match_title: one result and its score against the best
\* so far; best is the call's record, with its best_match, its best_score
\* and the scores given so far (with the year score that went into each)
keep_best(best, result, media_type, year_score, score) ==
    [ best EXCEPT
        !.best_match = IF Less(best.best_score, score)
                       THEN Some(best_match_of(result, media_type, score))
                       ELSE best.best_match,
        !.best_score = IF Less(best.best_score, score) THEN score ELSE best.best_score,
        !.scored = Append(best.scored,
                          [ result |-> result, media_type |-> media_type,
                            year_score |-> year_score, score |-> score ]) ]

\* the loop over all the results of the search, from result i on
RECURSIVE score_results_all(_, _, _, _, _, _, _)
score_results_all(self, results, i, media_type, normalized_title, extracted_year, best) ==
    IF i > Len(results) THEN best
    ELSE score_results_all(self, results, i + 1, media_type, normalized_title,
                           extracted_year,
                           keep_best(best, results[i], media_type,
                                     year_score_of(self, result_year_of(results[i]),
                                                   extracted_year),
                                     score_result(self, results[i], normalized_title,
                                                  extracted_year)))

\* lines 183-203 of match_title: the loop over results[:10], from result i on
RECURSIVE score_results(_, _, _, _, _, _, _)
score_results(self, results, i, media_type, normalized_title, extracted_year, best) ==
    IF i > Len(results) \/ i > TOP_RESULTS THEN best
    ELSE score_results(self, results, i + 1, media_type, normalized_title,
                       extracted_year,
                       keep_best(best, results[i], media_type,
                                 year_score_of(self, result_year_of(results[i]),
                                               extracted_year),
                                 score_result(self, results[i], normalized_title,
                                              extracted_year)))

\* lines 177-181 of match_title: nothing is scored when the search gave
\* None or an empty list
score_search(self, call, media_type, results) ==
    IF results = Nil THEN call
    ELSE IF results[1] = << >> THEN call
    ELSE score_results(self, results[1], 1, media_type, call.normalized_title,
                       call.extracted_year, call)

\* the media types with "overall" searching movies only
media_types_of_movie_only(category) ==
    IF category = "tv-shows" THEN << "tv" >> ELSE << "movie" >>

\* lines 167-174 of match_title
media_types_of(category) ==
    IF category = "movies" THEN << "movie" >>
    ELSE IF category = "tv-shows" THEN << "tv" >>
    ELSE << "movie", "tv" >>

\* lines 205-215 of match_title: the best match when its rounded confidence
\* reaches 0.6, else None
accept(best_match) ==
    IF best_match # Nil /\ ~Less(Frac(best_match[1].match_confidence, 1000), Frac(6, 10))
    THEN MatchFound(best_match[1])
    ELSE MatchNone

IdleCall ==
    [ pc |-> "idle", title |-> << >>, category |-> "", normalized_title |-> << >>,
      extracted_year |-> Nil, media_types |-> << >>, best_match |-> Nil,
      best_score |-> Frac(0, 1), scored |-> << >>, result |-> MatchNone ]

\* match_title is called: without api key it returns None; else it awaits
\* the search of its first media type
match_title(title, category) ==
    /\ matcher.call.pc = "idle"
    /\ LET e == extract_year_from_title(title)
       IN  matcher' =
             [ matcher EXCEPT !.call =
                 IF matcher.self.api_key = ""
                 THEN [ IdleCall EXCEPT !.pc = "done", !.title = title,
                                        !.category = category ]
                 ELSE [ IdleCall EXCEPT !.pc = "search", !.title = title,
                                        !.category = category,
                                        !.normalized_title = normalize_title(e.clean_title),
                                        !.extracted_year = e.year,
                                        !.media_types = media_types_of(category) ] ]
    /\ UNCHANGED << cache, redis_ok, req, upstream, scr, agg, tmdb >>

\* the call after the search of its first pending media type: it awaits the
\* next search, or ends with the accepted match
after_search(call, best) ==
    IF Len(call.media_types) = 1
    THEN [ best EXCEPT !.pc = "done", !.media_types = << >>,
                       !.result = accept(best.best_match) ]
    ELSE [ best EXCEPT !.media_types = Tail(call.media_types) ]

\* the awaited search returns: its results are scored, and the call awaits
\* the search of the next media type or ends
match_title_resume ==
    /\ matcher.call.pc = "search"
    /\ matcher' =
         [ matcher EXCEPT !.call =
             after_search(matcher.call,
                          score_search(matcher.self, matcher.call,
                                       Head(matcher.call.media_types),
                                       search_tmdb(matcher.self,
                                                   tmdb[Head(matcher.call.media_types)]))) ]
    /\ UNCHANGED << cache, redis_ok, req, upstream, scr, agg, tmdb >>

\* the caller has the answer; the next call may be made
match_title_next ==
    /\ matcher.call.pc = "done"
    /\ matcher' = [ matcher EXCEPT !.call = IdleCall ]
    /\ UNCHANGED << cache, redis_ok, req, upstream, scr, agg, tmdb >>

----------------------------------------------------------------------------
(* Initial states *)

\* datetime.now().year when the matcher is constructed
THIS_YEAR == 2024

\* the text of a year, four digits
year_text(y) ==
    << DIGITS[( ( y \div 1000 ) % 10 ) + 1], DIGITS[( ( y \div 100 ) % 10 ) + 1],
       DIGITS[( ( y \div 10 ) % 10 ) + 1], DIGITS[( y % 10 ) + 1] >>

Kantara == << "K", "a", "n", "t", "a", "r", "a" >>
Jawan == << "J", "a", "w", "a", "n" >>
Jawohl == << "J", "a", "w", "o", "h", "l" >>

\* the titles match_title is called with: with a year, without, two short
\* ones, with the year 0000
SampleTitles ==
    { Kantara \o << " ", "(" >> \o year_text(2022) \o << ")" >>,
      Kantara, Jawan, << "a", "b" >>,
      Kantara \o << " ", "(" >> \o year_text(0) \o << ")" >> }

\* a result of /search/movie
Movie(id, title, release_date, vote_count) ==
    [ id |-> Some(id), title |-> title, original_title |-> title,
      release_date |-> release_date, vote_count |-> vote_count,
      poster_path |-> Some("/p.jpg") ]

\* a result of /search/tv
Show(id, name, first_air_date, vote_count) ==
    [ id |-> Some(id), name |-> name, original_name |-> name,
      first_air_date |-> first_air_date, vote_count |-> vote_count,
      poster_path |-> Nil ]

\* "YYYY-01-01"
date_in(y) == year_text(y) \o << "-", "0", "1", "-", "0", "1" >>

\* the results the movie search may list
SampleMovies ==
    { Movie(1, Kantara, date_in(2022), 1500),
      Movie(4, Jawohl, date_in(THIS_YEAR - 22), 1500),
      Movie(5, << "a", "x", "y" >>, date_in(THIS_YEAR - 2), 1500),
      Movie(6, << "a" >>, date_in(THIS_YEAR - 28), 10),
      Movie(7, Kantara, << >>, 10),
      Movie(8, Kantara, << "T", "B", "A" >>, 10) }

RECURSIVE ListsUpTo(_, _)
ListsUpTo(S, n) ==
    IF n = 0 THEN { << >> }
    ELSE LET shorter == ListsUpTo(S, n - 1)
         IN  shorter \cup { Append(l, x) : l \in { k \in shorter : Len(k) = n - 1 }, x \in S }

Answer(status, results) == [ status |-> status, results |-> results ]

\* an answer of more than TOP_RESULTS results: the movie Kantara of 2022
\* listed after TOP_RESULTS results named "a"
LongAnswer ==
    Answer("ok",
           [ i \in 1 .. TOP_RESULTS |-> Movie(6, << "a" >>, date_in(THIS_YEAR - 28), 10) ]
               \o << Movie(1, Kantara, date_in(2022), 1500) >>)

\* the answers of /search/movie: a failure, a list of sample results, one
\* result named Kantara released in any year up to MaxGap years ago (or in
\* the year 0000), or the long answer
MovieAnswers ==
    { Answer("error", << >>), LongAnswer }
      \cup { Answer("ok", l) : l \in ListsUpTo(SampleMovies, MaxResults) }
      \cup { Answer("ok", << Movie(2, Kantara, date_in(y), 10) >>) :
               y \in ( ( THIS_YEAR - MaxGap ) .. ( THIS_YEAR + 1 ) ) \cup { 0 } }

ShowAnswers ==
    { Answer("error", << >>), Answer("ok", << >>),
      Answer("ok", << Show(9, Kantara, date_in(2022), 2000) >>) }

NoAnswers == [ m \in { "movie", "tv" } |-> Answer("error", << >>) ]

PlainItem(i) == TopTenItem(i, IF i = 1 THEN "Kantara (2022)" ELSE "Jawan",
                           IF i = 1 THEN "7 d" ELSE "12 d")
EnrichedItem(i) ==
    [ PlainItem(i) EXCEPT !.tmdb_id = Some(500 + i), !.media_type = Some("movie"),
                          !.year = Some(2022), !.match_confidence = Some(842),
                          !.poster_path = Some("/p.jpg") ]

\* a list of n items, ranks 1..n, matched and unmatched items alternating
SampleList(n) == [ i \in 1 .. n |-> IF i % 2 = 1 THEN EnrichedItem(i) ELSE PlainItem(i) ]

\* a dict without "rank"
BadDict == [ title |-> "Jawan", days_in_top_10 |-> "3 d" ]

\* the texts a per-pair key may hold when the service starts
PairTexts ==
    { NoText, EmptyText, Garbage, JsonList(<< >>), JsonList(<< BadDict >>) }
      \cup { dumps_items(SampleList(n)) : n \in 1 .. MaxItems }

PairKeys == { cache_key(task_mapping[i].platform, task_mapping[i].category) :
                 i \in DOMAIN task_mapping }

Keys ==
    PairKeys \cup { cache_key(a[1], a[2]) : a \in CallInputs } \cup { FETCHALL_KEY }

\* the tables a section may show: n good rows; a row whose rank cell holds
\* no number, a row without anchor, a row with a single cell; a table
\* without <tbody>; a header outside the expected blocks
SampleTables ==
    { Table(TRUE, TRUE, [ i \in 1 .. n |-> GoodRow(i) ]) : n \in 0 .. MaxRows }
      \cup { Table(TRUE, TRUE, << Row(FALSE, 0, TRUE, "Jawan", 3, "12 d"), GoodRow(2) >>),
             Table(TRUE, TRUE, << GoodRow(1), Row(TRUE, 2, FALSE, "", 3, "12 d") >>),
             Table(TRUE, TRUE, << Row(TRUE, 1, TRUE, "Jawan", 1, "1.") >>),
             Table(TRUE, FALSE, << >>),
             Table(FALSE, TRUE, << GoodRow(1) >>) }

SectionTitles == { CATEGORY_MAP[c] : c \in DOMAIN CATEGORY_MAP }

\* a page whose "TOP 10 Movies" section shows the table; it has no other
\* section
Page(status, table) ==
    [ status |-> status,
      sections |-> [ t \in SectionTitles |->
                       IF t = "TOP 10 Movies" THEN Some(table) ELSE Nil ] ]

FullTable == Table(TRUE, TRUE, [ i \in 1 .. MaxRows |-> GoodRow(i) ])

Init ==
    /\ \E text \in PairTexts :
          cache = [ k \in Keys |->
                      IF k = cache_key("netflix", "movies") THEN text ELSE NoText ]
    /\ redis_ok \in BOOLEAN
    /\ req = [ r \in Slots |-> IdleReq ]
    /\ \E status \in { "ok", "RequestError" } :
          upstream = [ p \in DOMAIN PLATFORM_CONFIG |-> Page(status, FullTable) ]
    /\ scr = IdleScr
    /\ agg = IdleAgg
    /\ tmdb = NoAnswers
    /\ matcher = [ self |-> [ api_key |-> "", current_year |-> THIS_YEAR ],
                   call |-> IdleCall ]

Next ==
    \/ \E r \in Slots, a \in EndpointInputs : get_single_category(r, a[1], a[2])
    \/ \E r \in Slots, a \in CallInputs : get_cached_or_scrape(r, a[1], a[2])
    \/ \E r \in Slots : resume(r)
    \/ \E r \in Slots : next_request(r)
    \/ \E key \in Keys : expire(key)
    \/ redis_flip

Spec == Init /\ [][Next]_vars

----------------------------------------------------------------------------
(* The aggregate endpoint over a store that holds the per-pair lists *)

\* the pairs one of which may hold another text than the rest: the first
\* task, the third category of a platform, the last task
OddPairs ==
    { cache_key("netflix", "movies"), cache_key("amazon-prime", "overall"),
      cache_key("zee5", "overall") }

\* every pair holds the same text (a one-item list, nothing, or an empty
\* list), but for at most one pair among lists, which holds any of the
\* texts, and, when that pair holds nothing, for the pair of itunes, which
\* may hold the empty list; the aggregate key holds nothing or garbage
InitAggregate ==
    /\ \E base \in { dumps_items(SampleList(1)), NoText, JsonList(<< >>) },
          odd \in OddPairs, text \in PairTexts, all \in { NoText, Garbage } :
       \E second \in { base, JsonList(<< >>) } :
          /\ base = dumps_items(SampleList(1)) \/ text = base
          /\ all = NoText \/ text = base
          /\ second = base \/ ( text = NoText /\ all = NoText )
          /\ cache = [ k \in Keys |->
                         IF k = FETCHALL_KEY THEN all
                         ELSE IF k = odd THEN text
                         ELSE IF k = cache_key("itunes", "movies") THEN second
                         ELSE IF k \in PairKeys THEN base
                         ELSE NoText ]
    /\ redis_ok = TRUE
    /\ req = [ r \in Slots |-> IdleReq ]
    /\ upstream = [ p \in DOMAIN PLATFORM_CONFIG |-> Page("ok", FullTable) ]
    /\ scr = IdleScr
    /\ agg = IdleAgg
    /\ tmdb = NoAnswers
    /\ matcher = [ self |-> [ api_key |-> "", current_year |-> THIS_YEAR ],
                   call |-> IdleCall ]

NextAggregate ==
    \/ fetch_all
    \/ fetch_all_resume
    \/ \E i \in DOMAIN task_mapping : task_resume(i)
    \/ expire_fetchall
    \/ redis_flip_between

SpecAggregate == InitAggregate /\ [][NextAggregate]_vars

----------------------------------------------------------------------------
(* The scraper called on its own, over the pages the site may answer with *)

InitScraper ==
    /\ cache = [ k \in Keys |-> NoText ]
    /\ redis_ok = TRUE
    /\ req = [ r \in Slots |-> IdleReq ]
    /\ \E status \in FetchStatuses, table \in SampleTables :
          upstream = [ p \in DOMAIN PLATFORM_CONFIG |-> Page(status, table) ]
    /\ scr = IdleScr
    /\ agg = IdleAgg
    /\ tmdb = NoAnswers
    /\ matcher = [ self |-> [ api_key |-> "", current_year |-> THIS_YEAR ],
                   call |-> IdleCall ]

NextScraper ==
    \/ \E p \in { "netflix", "zee5" }, c \in DOMAIN CATEGORY_MAP :
          scraper_call(p, CATEGORY_MAP[c], c)
    \/ scraper_resume
    \/ scraper_next

SpecScraper == InitScraper /\ [][NextScraper]_vars

----------------------------------------------------------------------------
(* Properties of GET /{platform}/{category} and of get_cached_or_scrape *)

\* the raw items the scraper would read from the platform's page
page_rows(platform_slug, category_key) ==
    LET r == scrape_raw(upstream[platform_slug], CATEGORY_MAP[category_key], category_key)
    IN  IF r.done THEN << >> ELSE r.raw

\* C1: a call that finds nothing cached for a known category while the
\* site cannot be reached has invoked the fetcher, returns nothing (None)
\* and has written nothing to the cache
C1_AbsentReturnedNotCached ==
    \A r \in Slots :
        ( /\ req[r].pc = "done"
          /\ req[r].read = "miss"
          /\ req[r].category \in DOMAIN CATEGORY_MAP
          /\ upstream[req[r].platform].status # "ok" )
        => ( req[r].called /\ req[r].out = RetNone /\ ~req[r].wrote )

\* C4: an endpoint request whose pair is not one of the ten supported
\* (platform, category) pairs is answered 404 at once: it never awaits the
\* cache or the scraper, has read nothing, called nothing, written nothing
C4_UnsupportedRejectedFirst ==
    \A r \in Slots :
        ( /\ req[r].via = "endpoint"
          /\ << req[r].platform, req[r].category >> \notin
                { << "netflix", "movies" >>, << "netflix", "tv-shows" >>,
                  << "amazon-prime", "movies" >>, << "amazon-prime", "tv-shows" >>,
                  << "amazon-prime", "overall" >>, << "apple-tv", "movies" >>,
                  << "apple-tv", "tv-shows" >>, << "itunes", "movies" >>,
                  << "google", "movies" >>, << "zee5", "overall" >> } )
        => ( /\ req[r].pc = "done"
             /\ req[r].http = 404
             /\ req[r].read = ""
             /\ ~req[r].called
             /\ ~req[r].wrote )

\* an excluded combination of a known platform and a known category has
\* been rejected
C4_Witness ==
    \E r \in Slots :
        /\ req[r].via = "endpoint"
        /\ req[r].platform = "zee5" /\ req[r].category = "movies"
        /\ req[r].pc = "done" /\ req[r].http = 404

\* C5: no failure of the cache read leaves the call as an exception, and a
\* call whose read failed (Redis unreachable, payload undecodable) ends as
\* the call for the same pair whose read found nothing ends
C5_CacheFailureIsMiss ==
    /\ \A r \in Slots :
          req[r].pc = "done" =>
              req[r].out \notin { Raised("ConnectionError"), Raised("JSONDecodeError"),
                                  Raised("ValidationError") }
    /\ \A r1, r2 \in Slots :
          ( /\ req[r1].pc = "done" /\ req[r2].pc = "done"
            /\ req[r1].via = "call" /\ req[r2].via = "call"
            /\ req[r1].platform = req[r2].platform
            /\ req[r1].category = req[r2].category
            /\ req[r1].read \in { "error", "undecodable" }
            /\ req[r2].read = "miss" )
          => ( /\ req[r1].out = req[r2].out
               /\ req[r1].called = req[r2].called
               /\ req[r1].wrote = req[r2].wrote )

\* two calls for netflix/movies have ended, the read of one having failed
\* and the read of the other having found nothing
C5_Witness ==
    \E r1, r2 \in Slots :
        /\ req[r1].pc = "done" /\ req[r2].pc = "done"
        /\ req[r1].via = "call" /\ req[r2].via = "call"
        /\ req[r1].platform = "netflix" /\ req[r2].platform = "netflix"
        /\ req[r1].category = "movies" /\ req[r2].category = "movies"
        /\ req[r1].read \in { "error", "undecodable" }
        /\ req[r2].read = "miss"

\* C6: a call that finds nothing cached while the page shows rows returns
\* the list of those rows and has written it to the cache
C6_MissFetchesAndStores ==
    \A r \in Slots :
        ( /\ req[r].pc = "done"
          /\ req[r].read = "miss"
          /\ req[r].category \in DOMAIN CATEGORY_MAP
          /\ req[r].platform \in DOMAIN upstream
          /\ page_rows(req[r].platform, req[r].category) # << >> )
        => ( /\ req[r].out.tag = "list"
             /\ req[r].wrote )

----------------------------------------------------------------------------
(* Properties of GET /fetchall *)

\* the units of the last gather that raised, and those that returned a
\* non-empty list
raised_units == { i \in DOMAIN agg.tasks : agg.tasks[i].out.tag = "raise" }
listed_units == { i \in DOMAIN agg.tasks : TruthyResult(agg.tasks[i].out) }

\* the status the report must show for unit i, from the unit's own result
own_status(i) ==
    IF i \in raised_units THEN PlatformStatus(FALSE, 0, << "Error" >>)
    ELSE IF i \in listed_units
    THEN PlatformStatus(TRUE, Len(agg.tasks[i].out.items),
                        << "Success", Len(agg.tasks[i].out.items) >>)
    ELSE PlatformStatus(FALSE, 0, << "No data" >>)

\* the report has a status entry for unit i
has_status(report, i) ==
    /\ task_mapping[i].platform \in DOMAIN report.summary.platforms
    /\ task_mapping[i].category \in DOMAIN report.summary.platforms[task_mapping[i].platform]

\* C2: in a freshly built report every unit has the status entry its own
\* result gives it, whatever its siblings did: a unit that read its list
\* from the cache returned that list, a unit that raised is the one marked
\* as error; with one unit raising and nine returning lists, nine entries
\* are available, one is the error entry, total_requests is 10 and
\* successful_requests is 9
C2_UnitsIsolated ==
    ( agg.pc = "done" /\ agg.source = "fresh" /\ agg.response # Nil ) =>
        LET report == agg.response[1]
            entries == { i \in DOMAIN task_mapping : has_status(report, i) }
            entry(i) ==
                report.summary.platforms[task_mapping[i].platform][task_mapping[i].category]
        IN  /\ entries = DOMAIN task_mapping
            /\ \A i \in entries : entry(i) = own_status(i)
            /\ \A i \in DOMAIN agg.tasks :
                  agg.tasks[i].read = "hit" =>
                      agg.tasks[i].out =
                          RetList(read_cached(
                              [ exc |-> FALSE,
                                text |-> cache[cache_key(task_mapping[i].platform,
                                                         task_mapping[i].category)] ]).items)
            /\ \A i \in listed_units :
                  report.data[model_platform_key(task_mapping[i].platform)]
                             [model_category_field(task_mapping[i].category)]
                      = agg.tasks[i].out.items
            /\ report.summary.successful_requests = Cardinality(listed_units)
            /\ ( Cardinality(raised_units) = 1 /\ Cardinality(listed_units) = 9 ) =>
                  /\ Cardinality({ i \in entries : entry(i).available }) = 9
                  /\ { i \in entries : entry(i).status = << "Error" >> } = raised_units
                  /\ report.summary.total_requests = 10
                  /\ report.summary.successful_requests = 9

\* a report has been built from one raising unit, which is not the last of
\* the gather, and nine units that returned lists
C2_Witness ==
    /\ agg.pc = "done" /\ agg.source = "fresh"
    /\ Cardinality(raised_units) = 1
    /\ Cardinality(listed_units) = 9
    /\ \E i \in raised_units : i < Len(task_mapping)

\* C3: fetch_all never ends with an exception: whenever the handler has
\* ended it has returned a report (the cached one, or a fresh one that
\* counts every unit and has an entry for each), whatever the units
\* returned or raised and whether or not the cache could be read or written
C3_AlwaysReport ==
    agg.pc = "done" =>
          /\ agg.response # Nil
          /\ agg.source \in { "cache", "fresh" }
          /\ agg.source = "fresh" =>
                /\ agg.response[1].summary.total_requests = Len(task_mapping)
                /\ \A i \in DOMAIN task_mapping : has_status(agg.response[1], i)

\* a fresh report has been returned although every unit raised and the
\* write of the report failed
C3_Witness ==
    /\ agg.pc = "done" /\ agg.source = "fresh"
    /\ raised_units = DOMAIN task_mapping
    /\ ~redis_ok
    /\ cache[FETCHALL_KEY] # dump_report(agg.response[1])

----------------------------------------------------------------------------
(* Properties of FlixPatrolScraper.get_top_10_for_category *)

\* C8: when the page gave N raw items, the call returns a list of exactly N
\* items and item i carries the rank, the title and the days of raw item
\* i, whatever the matches ended with
C8_RankOrderPreserved ==
    ( scr.pc = "done" /\ scr.raw # << >> ) =>
        /\ scr.result.tag = "list"
        /\ Len(scr.result.items) = Len(scr.raw)
        /\ \A i \in DOMAIN scr.raw :
              /\ scr.result.items[i].rank = scr.raw[i].rank
              /\ scr.result.items[i].title = scr.raw[i].title
              /\ scr.result.items[i].days_in_top_10 = scr.raw[i].days_in_top_10

----------------------------------------------------------------------------
(* TMDBMatcher.match_title called on its own, over the answers TMDB may give *)

InitMatcher ==
    /\ cache = [ k \in Keys |-> NoText ]
    /\ redis_ok = TRUE
    /\ req = [ r \in Slots |-> IdleReq ]
    /\ upstream = [ p \in DOMAIN PLATFORM_CONFIG |-> Page("ok", FullTable) ]
    /\ scr = IdleScr
    /\ agg = IdleAgg
    /\ \E movies \in MovieAnswers, shows \in ShowAnswers :
          tmdb = [ m \in { "movie", "tv" } |-> IF m = "movie" THEN movies ELSE shows ]
    /\ \E api_key \in { "", "k3y" } :
          /\ api_key = "" => tmdb = NoAnswers
          /\ matcher = [ self |-> [ api_key |-> api_key, current_year |-> THIS_YEAR ],
                         call |-> IdleCall ]

NextMatcher ==
    \/ \E title \in SampleTitles, category \in DOMAIN CATEGORY_MAP :
          match_title(title, category)
    \/ match_title_resume
    \/ match_title_next

SpecMatcher == InitMatcher /\ [][NextMatcher]_vars

----------------------------------------------------------------------------
(* Properties of TMDBMatcher.match_title *)

\* C9: a call that searched returns its best result exactly when the
\* combined score of that result is at least 0.6
C9_ThresholdOnScore ==
    ( matcher.call.pc = "done" /\ matcher.self.api_key # "" ) =>
        ( matcher.call.result.tag = "match"
            <=> ( /\ matcher.call.best_match # Nil
                  /\ ~Less(matcher.call.best_score, Frac(6, 10)) ) )

\* the year of a scored result is d years from the year y
YearsApart(entry, y, d) ==
    /\ TruthyYear(result_year_of(entry.result))
    /\ Abs(y - result_year_of(entry.result)[1]) = d

\* C10 as stated: an explicit year equal to the result's year scores 1.0;
\* without explicit year a result 21 years from the current year scores
\* 0.3; no year score is negative
C10_YearScoreAsStated ==
    \A i \in DOMAIN matcher.call.scored :
        LET entry == matcher.call.scored[i]
            explicit == matcher.call.extracted_year
        IN  /\ ( explicit # Nil /\ result_year_of(entry.result) = explicit )
                  => entry.year_score = Frac(1, 1)
            /\ ( explicit = Nil /\ YearsApart(entry, matcher.self.current_year, 21) )
                  => entry.year_score = Frac(3, 10)
            /\ ~Less(entry.year_score, Frac(0, 1))

\* C10: an explicit year other than 0000 equal to the result's year scores
\* 1.0, and one 21 years from the result's year scores 0.3; without (or
\* with the year 0000 as) explicit year, a result 21 years from the current
\* year scores 0.58 = 1 - 21/50, one 11 to 34 years away scores more than
\* 0.3 and one 35 or more years away scores 0.3; no year score is below 0.3
C10_YearScoreBoundary ==
    \A i \in DOMAIN matcher.call.scored :
        LET entry == matcher.call.scored[i]
            explicit == matcher.call.extracted_year
            now == matcher.self.current_year
        IN  /\ ( TruthyYear(explicit) /\ result_year_of(entry.result) = explicit )
                  => entry.year_score = Frac(1, 1)
            /\ ( TruthyYear(explicit) /\ YearsApart(entry, explicit[1], 21) )
                  => entry.year_score = Frac(3, 10)
            /\ ( ~TruthyYear(explicit) /\ YearsApart(entry, now, 21) )
                  => entry.year_score = Frac(58, 100)
            /\ ( ~TruthyYear(explicit)
                 /\ \E d \in 11 .. 34 : YearsApart(entry, now, d) )
                  => Less(Frac(3, 10), entry.year_score)
            /\ ( ~TruthyYear(explicit)
                 /\ \E d \in 35 .. ( MaxGap + 1 ) : YearsApart(entry, now, d) )
                  => entry.year_score = Frac(3, 10)
            /\ ~Less(entry.year_score, Frac(3, 10))

\* a title without explicit year has been scored against a result released
\* 21 years before the current year: its year score is 0.58
C10_Witness ==
    \E i \in DOMAIN matcher.call.scored :
        /\ matcher.call.extracted_year = Nil
        /\ YearsApart(matcher.call.scored[i], matcher.self.current_year, 21)
        /\ matcher.call.scored[i].year_score = Frac(58, 100)

----------------------------------------------------------------------------
(* Properties of the report of GET /fetchall *)

\* the report holds a list for unit i in its data
populated(report, i) ==
    /\ model_platform_key(task_mapping[i].platform) \in DOMAIN report.data
    /\ model_category_field(task_mapping[i].category)
           \in DOMAIN report.data[model_platform_key(task_mapping[i].platform)]

\* C11: the data of a returned report holds no empty platform and no empty
\* list; in a freshly built report a pair is in the data exactly when its
\* unit returned a non-empty list (never when it returned [], None or
\* raised), and every platform of the data has such a unit
C11_DataOnlyNonEmpty ==
    ( agg.pc = "done" /\ agg.response # Nil ) =>
        LET report == agg.response[1]
        IN  /\ \A k \in DOMAIN report.data :
                  /\ DOMAIN report.data[k] # { }
                  /\ \A f \in DOMAIN report.data[k] : report.data[k][f] # << >>
            /\ agg.source = "fresh" =>
                  /\ \A i \in DOMAIN task_mapping :
                        populated(report, i) <=> i \in listed_units
                  /\ \A k \in DOMAIN report.data :
                        \E i \in listed_units :
                            model_platform_key(task_mapping[i].platform) = k

\* a fresh report has been built from units of which the one of zee5
\* returned the empty list and others returned items: zee5 has a status
\* entry and is not in the data
C11_Witness ==
    /\ agg.pc = "done" /\ agg.source = "fresh"
    /\ listed_units # { }
    /\ \E i \in DOMAIN agg.tasks :
          /\ task_mapping[i].platform = "zee5"
          /\ agg.tasks[i].out = RetList(<< >>)
          /\ has_status(agg.response[1], i)
          /\ "zee5" \notin DOMAIN agg.response[1].data

----------------------------------------------------------------------------
(* More properties of GET /{platform}/{category} and get_cached_or_scrape *)

\* C12: a request for a supported pair is answered with the list (200) or
\* with "service unavailable" (503), nothing else; when nothing usable is
\* cached and the page gives no rows (unreachable, no section, no rows)
\* the answer is 503
C12_SequenceOrUnavailable ==
    \A r \in Slots :
        ( /\ req[r].via = "endpoint"
          /\ req[r].pc = "done"
          /\ validate(req[r].platform, req[r].category) = 0 )
        => ( /\ req[r].http \in { 200, 503 }
             /\ ( /\ req[r].read # "hit"
                  /\ page_rows(req[r].platform, req[r].category) = << >> )
                    => req[r].http = 503 )

----------------------------------------------------------------------------
(* More properties of TMDBMatcher.match_title *)

\* a scored result whose title is the normalized title but for case, whose
\* year is the explicit year of the title and whose vote count is above
\* 1000
exact_popular(entry) ==
    /\ matcher.call.extracted_year # Nil
    /\ lower(title_of(entry.result)) = lower(matcher.call.normalized_title)
    /\ result_year_of(entry.result) = matcher.call.extracted_year
    /\ "vote_count" \in DOMAIN entry.result
    /\ entry.result.vote_count > 1000

\* C13: such a result scores exactly 1.0 (year score 1.0, the sum with both
\* boosts capped), and a call that scored one returns a match of
\* confidence 1.0
C13_ExactPopularScoresOne ==
    /\ \A i \in DOMAIN matcher.call.scored :
          exact_popular(matcher.call.scored[i]) =>
              /\ matcher.call.scored[i].year_score = Frac(1, 1)
              /\ matcher.call.scored[i].score = Frac(1, 1)
    /\ ( /\ matcher.call.pc = "done"
         /\ \E i \in DOMAIN matcher.call.scored : exact_popular(matcher.call.scored[i]) )
       => /\ matcher.call.best_score = Frac(1, 1)
          /\ matcher.call.result.tag = "match"
          /\ matcher.call.result.match.match_confidence = 1000

\* match_title("Kantara (2022)", "movies") has ended with the movie Kantara
\* of 2022 with 1500 votes: normalized title "Kantara", explicit year 2022,
\* accepted with confidence 1.0
C13_Witness ==
    /\ matcher.call.pc = "done"
    /\ matcher.call.title = Kantara \o << " ", "(" >> \o year_text(2022) \o << ")" >>
    /\ matcher.call.category = "movies"
    /\ matcher.call.normalized_title = Kantara
    /\ matcher.call.extracted_year = Some(2022)
    /\ \E i \in DOMAIN matcher.call.scored :
          /\ exact_popular(matcher.call.scored[i])
          /\ matcher.call.scored[i].result.vote_count = 1500
    /\ matcher.call.result.tag = "match"
    /\ matcher.call.result.match.tmdb_id = Some(1)
    /\ matcher.call.result.match.match_confidence = 1000

----------------------------------------------------------------------------
(* More properties of the report of GET /fetchall *)

\* the pairs PLATFORM_CONFIG and CATEGORY_MAP configure
configured_pairs ==
    { << p, c >> \in ( DOMAIN PLATFORM_CONFIG ) \X ( DOMAIN CATEGORY_MAP ) :
          CATEGORY_MAP[c] \in Range(PLATFORM_CONFIG[p]) }

\* the pairs that have a status entry in the summary
status_pairs(summary) ==
    { << p, c >> \in ( DOMAIN summary.platforms ) \X ( DOMAIN CATEGORY_MAP ) :
          c \in DOMAIN summary.platforms[p] }

\* C14: a freshly built report has a status entry for the configured pairs
\* and for no other, one unit having run per pair; the entry of a unit that
\* raised is {available false, count 0, error}, that of a unit that
\* returned N >= 1 items is {available true, count N, success} with the N
\* items in the data, that of a unit that returned None or [] is
\* {available false, count 0, no data}
C14_StatusByOutcome ==
    ( agg.pc = "done" /\ agg.source = "fresh" /\ agg.response # Nil ) =>
        LET report == agg.response[1]
            platforms == report.summary.platforms
        IN  /\ status_pairs(report.summary) = configured_pairs
            /\ \A p \in DOMAIN platforms : DOMAIN platforms[p] \subseteq DOMAIN CATEGORY_MAP
            /\ Len(agg.tasks) = Cardinality(configured_pairs)
            /\ \A i, j \in DOMAIN task_mapping : task_mapping[i] = task_mapping[j] => i = j
            /\ \A i \in DOMAIN agg.tasks :
                  LET out == agg.tasks[i].out
                      st == platforms[task_mapping[i].platform][task_mapping[i].category]
                  IN  /\ out.tag = "raise" =>
                            st = [ available |-> FALSE, count |-> 0,
                                   status |-> << "Error" >> ]
                      /\ ( out.tag = "list" /\ Len(out.items) >= 1 ) =>
                            /\ st = [ available |-> TRUE, count |-> Len(out.items),
                                      status |-> << "Success", Len(out.items) >> ]
                            /\ populated(report, i)
                            /\ report.data[model_platform_key(task_mapping[i].platform)]
                                          [model_category_field(task_mapping[i].category)]
                                  = out.items
                      /\ ( out.tag = "None" \/ ( out.tag = "list" /\ out.items = << >> ) ) =>
                            st = [ available |-> FALSE, count |-> 0,
                                   status |-> << "No data" >> ]

\* a fresh report has been built from a unit that raised, a unit that
\* returned the empty list and units that returned items
C14_Witness ==
    /\ agg.pc = "done" /\ agg.source = "fresh"
    /\ raised_units # { }
    /\ listed_units # { }
    /\ \E i \in DOMAIN agg.tasks : agg.tasks[i].out = RetList(<< >>)

\* C15: in the summary of a freshly built report total_requests is the
\* number of units run, one per configured pair; successful_requests is
\* the number of units that returned at least one item;
\* successful_platforms is the number of platforms of which at least one
\* unit returned at least one item
C15_SummaryCounts ==
    ( agg.pc = "done" /\ agg.source = "fresh" /\ agg.response # Nil ) =>
        LET summary == agg.response[1].summary
        IN  /\ summary.total_requests = Len(agg.tasks)
            /\ summary.total_requests = Cardinality(configured_pairs)
            /\ summary.successful_requests =
                  Cardinality({ i \in DOMAIN agg.tasks :
                                  /\ agg.tasks[i].out.tag = "list"
                                  /\ Len(agg.tasks[i].out.items) >= 1 })
            /\ summary.successful_platforms =
                  Cardinality({ task_mapping[i].platform : i \in listed_units })

\* a fresh report counts fewer successful platforms than platforms and
\* fewer successful requests than requests, and more than none of each:
\* the only unit of one platform returned no items, another platform has
\* units with items and one without
C15_Witness ==
    /\ agg.pc = "done" /\ agg.source = "fresh"
    /\ agg.response[1].summary.successful_platforms = 5
    /\ agg.response[1].summary.successful_requests = 8
    /\ agg.response[1].summary.total_requests = 10

\* C16 as stated: the total of the summary (total_platforms in the code) is
\* the number of configured pairs, the number of units and total_requests
C16_TotalIsPairs ==
    ( agg.pc = "done" /\ agg.source = "fresh" /\ agg.response # Nil ) =>
        /\ agg.response[1].summary.total_platforms = Cardinality(configured_pairs)
        /\ agg.response[1].summary.total_platforms = Len(agg.tasks)
        /\ agg.response[1].summary.total_platforms
               = agg.response[1].summary.total_requests

\* C16: the total of the summary is the number of configured platforms,
\* len(PLATFORM_CONFIG), which is less than the number of configured
\* pairs; the number of pairs is the number of units and total_requests
C16_TotalIsPlatforms ==
    ( agg.pc = "done" /\ agg.source = "fresh" /\ agg.response # Nil ) =>
        /\ agg.response[1].summary.total_platforms = Cardinality(DOMAIN PLATFORM_CONFIG)
        /\ agg.response[1].summary.total_platforms < Cardinality(configured_pairs)
        /\ agg.response[1].summary.total_requests = Cardinality(configured_pairs)
        /\ Len(agg.tasks) = Cardinality(configured_pairs)
        /\ agg.response[1].summary.successful_platforms
               <= agg.response[1].summary.total_platforms

\* a fresh report in which every unit returned items gives 6 as its total,
\* 6 successful platforms and 10 requests
C16_Witness ==
    /\ agg.pc = "done" /\ agg.source = "fresh"
    /\ listed_units = DOMAIN task_mapping
    /\ agg.response[1].summary.total_platforms = 6
    /\ agg.response[1].summary.successful_platforms = 6
    /\ agg.response[1].summary.total_requests = 10

\* C17: when the GET of "india:fetchall" answers a stored report, the
\* handler returns that report as stored (its timestamp and its entries
\* those of the run that built it) and ends at once: it has created no
\* task, so no pair key is read and the scraper is not called, and the
\* store is left as it was
C17_CachedReportVerbatim ==
    [][ ( /\ agg.pc = "get"
          /\ agg'.pc # "get"
          /\ redis_ok
          /\ cache[FETCHALL_KEY].kind = "report" )
        => ( /\ agg'.pc = "done"
             /\ agg'.source = "cache"
             /\ agg'.response = Some(cache[FETCHALL_KEY].doc)
             /\ dump_report(agg'.response[1]) = cache[FETCHALL_KEY]
             /\ agg'.tasks = << >>
             /\ cache' = cache
             /\ req' = req /\ scr' = scr /\ matcher' = matcher ) ]_vars

\* the second run has returned, from the cache and without a task, the
\* report the first run built
C17_Witness ==
    /\ agg.pc = "done" /\ agg.source = "cache"
    /\ agg.run = 2
    /\ agg.tasks = << >>
    /\ agg.response # Nil
    /\ agg.response[1].summary.timestamp = 1
    /\ agg.response[1].summary.successful_requests > 0
    /\ cache[FETCHALL_KEY] = dump_report(agg.response[1])

----------------------------------------------------------------------------
(* Properties of get_cached_or_scrape on a miss *)

\* C18: a call whose read was no hit and whose category has no section in
\* CATEGORY_MAP ends with a signal that is not the None of an absent
\* result (and no list), without calling the scraper and without writing
C18_UnknownCategorySignalled ==
    \A r \in Slots :
        ( /\ req[r].pc = "done"
          /\ req[r].via = "call"
          /\ req[r].read \in { "miss", "error", "undecodable" }
          /\ req[r].category \notin DOMAIN CATEGORY_MAP )
        => ( /\ req[r].out # RetNone
             /\ req[r].out.tag # "list"
             /\ ~req[r].called
             /\ ~req[r].wrote )

----------------------------------------------------------------------------
(* Properties of FlixPatrolScraper._enrich_with_tmdb *)

\* how the match of raw item i ended: not awaited (no key), raised, None,
\* or a match dict
match_of(i) == IF i \in DOMAIN scr.matches THEN scr.matches[i] ELSE MatchNone

\* C19: when the page gave raw items the call returns one item per raw
\* item; the item of a raw item whose match raised or gave None is the raw
\* item with no catalog field, and the item of every raw item whose match
\* gave a dict is the raw item with the fields of its own match, whatever
\* the matches of the other items ended with
C19_MatchFailureAbsorbed ==
    ( scr.pc = "done" /\ scr.raw # << >> ) =>
        /\ scr.result.tag = "list"
        /\ DOMAIN scr.result.items = DOMAIN scr.raw
        /\ \A i \in DOMAIN scr.raw :
              IF match_of(i).tag = "match"
              THEN scr.result.items[i] = item_of_match(scr.raw[i], match_of(i).match)
              ELSE scr.result.items[i] = item_of_raw(scr.raw[i])

----------------------------------------------------------------------------
(* Concurrent calls of get_cached_or_scrape for one key *)

\* C20: two calls for the same supported pair that both found nothing
\* cached, the page showing rows, have each called the scraper, each
\* returned the list and each written it; the key then holds the text of
\* one of the two lists (unless it has expired or the writes failed)
C20_NoCoalescing ==
    \A r1, r2 \in Slots :
        ( /\ r1 # r2
          /\ req[r1].pc = "done" /\ req[r2].pc = "done"
          /\ req[r1].platform = req[r2].platform
          /\ req[r1].category = req[r2].category
          /\ validate(req[r1].platform, req[r1].category) = 0
          /\ req[r1].read = "miss" /\ req[r2].read = "miss"
          /\ page_rows(req[r1].platform, req[r1].category) # << >> )
        => ( /\ req[r1].called /\ req[r2].called
             /\ req[r1].out.tag = "list" /\ req[r2].out.tag = "list"
             /\ req[r1].out.items # << >> /\ req[r2].out.items # << >>
             /\ req[r1].wrote /\ req[r2].wrote
             /\ cache[cache_key(req[r1].platform, req[r1].category)]
                    \in { NoText, EmptyText, dumps_items(req[r1].out.items),
                          dumps_items(req[r2].out.items) } )

----------------------------------------------------------------------------
(* The aggregate endpoint during an outage of one platform's page: the GET *)
(* of that page times out (httpx.TimeoutException, a RequestError) until   *)
(* the site recovers                                                       *)

\* the site answers again: the GET of the page no longer fails
upstream_recovers ==
    /\ \E p \in DOMAIN upstream :
          /\ upstream[p].status # "ok"
          /\ upstream' = [ upstream EXCEPT ![p].status = "ok" ]
    /\ UNCHANGED << cache, redis_ok, req, scr, agg, tmdb, matcher >>

\* the page of one platform times out and nothing is cached for its pairs;
\* the other pairs all hold a one-item list, or all hold nothing; the
\* aggregate key holds nothing
InitOutage ==
    /\ \E down \in { "netflix", "zee5" },
          base \in { dumps_items(SampleList(1)), NoText } :
          /\ cache = [ k \in Keys |->
                         IF k \in PairKeys /\ k[2] # down THEN base ELSE NoText ]
          /\ upstream = [ p \in DOMAIN PLATFORM_CONFIG |->
                            Page(IF p = down THEN "RequestError" ELSE "ok", FullTable) ]
    /\ redis_ok = TRUE
    /\ req = [ r \in Slots |-> IdleReq ]
    /\ scr = IdleScr
    /\ agg = IdleAgg
    /\ tmdb = NoAnswers
    /\ matcher = [ self |-> [ api_key |-> "", current_year |-> THIS_YEAR ],
                   call |-> IdleCall ]

NextOutage ==
    \/ fetch_all
    \/ fetch_all_resume
    \/ \E i \in DOMAIN task_mapping : task_resume(i)
    \/ expire_fetchall
    \/ redis_flip_between
    \/ upstream_recovers

SpecOutage == InitOutage /\ [][NextOutage]_vars

----------------------------------------------------------------------------
(* Properties of the searches of TMDBMatcher.match_title *)

\* the results of the search of a media type that the call scores: none
\* when the search gave None, else the first TOP_RESULTS of its list
inspected(kind) ==
    LET answer == search_tmdb(matcher.self, tmdb[kind])
    IN  IF answer = Nil THEN << >>
        ELSE IF Len(answer[1]) > TOP_RESULTS THEN SubSeq(answer[1], 1, TOP_RESULTS)
        ELSE answer[1]

\* the results a call for the category scores, each with its media type,
\* in the order of the searches
candidates(category) ==
    LET of_kind(kind) == [ i \in DOMAIN inspected(kind) |->
                             [ result |-> inspected(kind)[i], media_type |-> kind ] ]
    IN  IF category = "movies" THEN of_kind("movie")
        ELSE IF category = "tv-shows" THEN of_kind("tv")
        ELSE of_kind("movie") \o of_kind("tv")

\* entry i of the scored results has a positive score that no entry
\* exceeds and that no earlier entry reaches
first_highest(scored, i) ==
    /\ Less(Frac(0, 1), scored[i].score)
    /\ \A j \in DOMAIN scored : ~Less(scored[i].score, scored[j].score)
    /\ \A j \in 1 .. ( i - 1 ) : Less(scored[j].score, scored[i].score)

\* C22: a call that has ended searched movies only for "movies", tv only
\* for "tv-shows" and both for any other category, and scored the results
\* of every search that gave any, whatever the other search gave; its best
\* match is the first highest-scoring result across the media types, with
\* the media type of the search that listed it, and is what the call
\* returns when it returns a match
C22_MediaKindFanOut ==
    ( matcher.call.pc = "done" /\ matcher.self.api_key # "" ) =>
        LET scored == matcher.call.scored
            wanted == candidates(matcher.call.category)
        IN  /\ Len(scored) = Len(wanted)
            /\ \A i \in DOMAIN scored :
                  /\ scored[i].result = wanted[i].result
                  /\ scored[i].media_type = wanted[i].media_type
            /\ matcher.call.category = "movies" =>
                  \A i \in DOMAIN scored : scored[i].media_type = "movie"
            /\ matcher.call.category = "tv-shows" =>
                  \A i \in DOMAIN scored : scored[i].media_type = "tv"
            /\ \A i \in DOMAIN scored :
                  first_highest(scored, i) =>
                      /\ matcher.call.best_score = scored[i].score
                      /\ matcher.call.best_match =
                            Some(best_match_of(scored[i].result, scored[i].media_type,
                                               scored[i].score))
            /\ ( \A i \in DOMAIN scored : ~first_highest(scored, i) ) =>
                  matcher.call.best_match = Nil
            /\ matcher.call.result.tag = "match" =>
                  matcher.call.result.match = matcher.call.best_match[1]

\* a call for "overall" has scored a movie and then a show, and returned
\* the show, tagged tv, because it scored higher
C22_Witness ==
    /\ matcher.call.pc = "done"
    /\ matcher.call.category = "overall"
    /\ Len(matcher.call.scored) = 2
    /\ matcher.call.scored[1].media_type = "movie"
    /\ matcher.call.scored[2].media_type = "tv"
    /\ Less(matcher.call.scored[1].score, matcher.call.scored[2].score)
    /\ matcher.call.result.tag = "match"
    /\ matcher.call.result.match.media_type = "tv"
    /\ matcher.call.result.match.tmdb_id = Some(9)

\* the best-match dict match_title builds for result i of the search of a
\* media type
match_of_position(kind, i) ==
    best_match_of(tmdb[kind].results[i], kind,
                  score_result(matcher.self, tmdb[kind].results[i],
                               matcher.call.normalized_title,
                               matcher.call.extracted_year))

\* C23: of the results of one media type a call scores at most
\* TOP_RESULTS, the j-th scored being the j-th listed; a match it returns
\* is built from one of the first TOP_RESULTS results of a search
C23_FirstTenOnly ==
    ( matcher.call.pc = "done" /\ matcher.self.api_key # "" ) =>
        /\ \A kind \in { "movie", "tv" } :
              LET of_kind == SelectSeq(matcher.call.scored,
                                       LAMBDA e : e.media_type = kind)
              IN  /\ Len(of_kind) <= TOP_RESULTS
                  /\ Len(of_kind) <= Len(tmdb[kind].results)
                  /\ \A j \in DOMAIN of_kind : of_kind[j].result = tmdb[kind].results[j]
        /\ matcher.call.result.tag = "match" =>
              \E kind \in { "movie", "tv" } :
                  \E i \in 1 .. TOP_RESULTS :
                      /\ i <= Len(tmdb[kind].results)
                      /\ matcher.call.result.match = match_of_position(kind, i)

\* a call has ended without returning the result listed after the first
\* TOP_RESULTS, although it scores higher than every result inspected
C23_Witness ==
    /\ matcher.call.pc = "done"
    /\ Len(tmdb["movie"].results) > TOP_RESULTS
    /\ Len(matcher.call.scored) = TOP_RESULTS
    /\ Less(matcher.call.best_score,
            score_result(matcher.self, tmdb["movie"].results[TOP_RESULTS + 1],
                         matcher.call.normalized_title, matcher.call.extracted_year))
    /\ ~Less(score_result(matcher.self, tmdb["movie"].results[TOP_RESULTS + 1],
                          matcher.call.normalized_title, matcher.call.extracted_year),
             Frac(6, 10))
    /\ matcher.call.result = MatchNone

\* C24: the year score of every scored result is at least 0.3 and at most
\* 1.0, its combined score after the boosts is at least 0 and at most 1.0,
\* so is the best score, and the confidence of a returned match is at
\* least 0.6 and at most 1.0 (in thousandths)
C24_ScoreBounds ==
    /\ \A i \in DOMAIN matcher.call.scored :
          /\ ~Less(matcher.call.scored[i].year_score, Frac(3, 10))
          /\ ~Less(Frac(1, 1), matcher.call.scored[i].year_score)
          /\ ~Less(matcher.call.scored[i].score, Frac(0, 1))
          /\ ~Less(Frac(1, 1), matcher.call.scored[i].score)
    /\ ~Less(matcher.call.best_score, Frac(0, 1))
    /\ ~Less(Frac(1, 1), matcher.call.best_score)
    /\ matcher.call.best_match # Nil =>
          matcher.call.best_match[1].match_confidence \in 0 .. 1000
    /\ matcher.call.result.tag = "match" =>
          matcher.call.result.match.match_confidence \in 600 .. 1000

\* a call has returned a match whose year is more than 20 years from the
\* explicit year of the title: its year score is the floor 0.3
C24_Witness ==
    /\ matcher.call.pc = "done"
    /\ matcher.call.result.tag = "match"
    /\ TruthyYear(matcher.call.extracted_year)
    /\ \E i \in DOMAIN matcher.call.scored :
          /\ YearsApart(matcher.call.scored[i], matcher.call.extracted_year[1], 30)
          /\ matcher.call.scored[i].year_score = Frac(3, 10)
          /\ matcher.call.result.match.match_confidence
                 = round3(matcher.call.scored[i].score)

----------------------------------------------------------------------------
(* Properties of the cached report of GET /fetchall *)

\* C25: a run that ends its gather returns a fresh report and, Redis being
\* reachable, leaves it stored under the aggregate key however few of its
\* units succeeded; a run that finds a report stored returns the statuses
\* and the data stored, with no unit run, whatever the pages answer now
C25_OutagePinned ==
    [][ /\ ( agg.pc = "gather" /\ agg'.pc = "done" ) =>
              /\ agg'.source = "fresh"
              /\ agg'.response # Nil
              /\ redis_ok => cache'[FETCHALL_KEY] = dump_report(agg'.response[1])
              /\ redis_ok => cache'[FETCHALL_KEY].kind = "report"
        /\ ( /\ agg.pc = "get" /\ agg'.pc # "get"
             /\ redis_ok
             /\ cache[FETCHALL_KEY].kind = "report" ) =>
              /\ agg'.pc = "done"
              /\ agg'.source = "cache"
              /\ agg'.tasks = << >>
              /\ agg'.response[1].summary.platforms
                     = cache[FETCHALL_KEY].doc.summary.platforms
              /\ agg'.response[1].summary.successful_requests
                     = cache[FETCHALL_KEY].doc.summary.successful_requests
              /\ agg'.response[1].data = cache[FETCHALL_KEY].doc.data
              /\ cache' = cache ]_vars

\* after the site has recovered, the second run has returned from the
\* cache the report of the first run, in which no unit succeeded and the
\* units are marked as errors
C25_Witness ==
    /\ agg.pc = "done" /\ agg.source = "cache"
    /\ agg.run = 2
    /\ agg.tasks = << >>
    /\ \A p \in DOMAIN upstream : upstream[p].status = "ok"
    /\ agg.response[1].summary.timestamp = 1
    /\ agg.response[1].summary.successful_requests = 0
    /\ \A i \in DOMAIN task_mapping :
          agg.response[1].summary.platforms
              [task_mapping[i].platform][task_mapping[i].category].status = << "Error" >>

\* C26: in every report returned, a configured pair is in the data exactly
\* when its status entry is available, exactly when its count is at least
\* 1, and the count is the length of the pair's list; successful_requests
\* is the number of available entries and at most total_requests;
\* successful_platforms is at most total_platforms and at most
\* successful_requests
C26_SummaryMatchesData ==
    ( agg.pc = "done" /\ agg.response # Nil ) =>
        LET report == agg.response[1]
            summary == report.summary
            entry(i) == summary.platforms[task_mapping[i].platform][task_mapping[i].category]
            list(i) == report.data[model_platform_key(task_mapping[i].platform)]
                                  [model_category_field(task_mapping[i].category)]
        IN  /\ \A i \in DOMAIN task_mapping :
                  /\ has_status(report, i)
                  /\ populated(report, i) <=> entry(i).available
                  /\ entry(i).available <=> entry(i).count >= 1
                  /\ populated(report, i) => entry(i).count = Len(list(i))
            /\ \A k \in DOMAIN report.data :
                  \E i \in DOMAIN task_mapping :
                      model_platform_key(task_mapping[i].platform) = k
            /\ summary.successful_requests =
                  Cardinality({ i \in DOMAIN task_mapping : entry(i).available })
            /\ summary.successful_requests <= summary.total_requests
            /\ summary.successful_platforms <= summary.total_platforms
            /\ summary.successful_platforms <= summary.successful_requests

\* a fresh report holds lists of one item with count 1, and an entry that
\* is not available, with count 0 and no list in the data
C26_Witness ==
    /\ agg.pc = "done" /\ agg.source = "fresh"
    /\ \E j, k \in DOMAIN task_mapping :
          /\ populated(agg.response[1], j)
          /\ agg.response[1].summary.platforms
                 [task_mapping[j].platform][task_mapping[j].category].count = 1
          /\ ~agg.response[1].summary.platforms
                 [task_mapping[k].platform][task_mapping[k].category].available
          /\ agg.response[1].summary.platforms
                 [task_mapping[k].platform][task_mapping[k].category].count = 0
          /\ ~populated(agg.response[1], k)

----------------------------------------------------------------------------
(* The units of GET /fetchall and the per-pair keys *)

\* the list stored under the key of unit i, when a valid one is stored
stored_list(store, i) ==
    read_cached([ exc |-> FALSE,
                  text |-> store[cache_key(task_mapping[i].platform,
                                           task_mapping[i].category)] ])

====
